---- MODULE Spec2Model ----
(***************************************************************************)
(* Model of the two orchestration engines of the repository:               *)
(*   - BookRobotTeam   (book_robot_langgraph.py): a compiled StateGraph    *)
(*     librarian -> detective -> {writer | wisdom} -> king;                *)
(*   - RobotKingdom    (book_robot_with_graph_flow.py): a run loop driven  *)
(*     by the next_robot field of a shared state object.                   *)
(*                                                                         *)
(* A Python string is a sequence of atoms.  Text that the code inspects    *)
(* character by character (questions, book text) is a sequence of          *)
(* one-character strings; the fixed text of an f-string template is one    *)
(* atom holding that text.  The empty string is <<>>.                      *)
(***************************************************************************)
EXTENDS Integers, Sequences, FiniteSets, TLC

VARIABLES
    team_memory_box,    \* BookRobotTeam.memory_box
    team_state,         \* the BookRobotState flowing through the graph
    team_pc,            \* "idle", or the node the graph runs next, or "END"
    team_trace,         \* nodes executed by the current (or last) run
    team_result,        \* what the last public call returned
    kingdom_memory_box, \* LibrarianRobot.memory_box
    kingdom_state,      \* RobotKingdom.state (a RobotKingdomState)
    kingdom_pc,         \* "idle" or "loop" (inside ask_question's while)
    kingdom_step,       \* the local variable step of ask_question
    kingdom_trace,      \* robots executed by the current (or last) run
    kingdom_result,     \* what the last public call returned
    threads,            \* per thread calling into one RobotKingdom: its call,
                        \* its position in it, its locals and its outcome
    robot_brain,        \* BookRobot.brain: its class and the model it loaded
    robot_memory_box,   \* BookRobot.memory_box (no attribute before read_book)
    robot_result,       \* what the last call on the BookRobot did
    robot_generated,    \* what self.generator did in that call
    robot_loads,        \* the last construction: its argument, and which
                        \* models could be loaded
    hf_model_name,      \* HuggingFaceLLM.model_name (<<>> before construction)
    hf_headers,         \* truthiness of HuggingFaceLLM.headers
    hf_pc,              \* position inside HuggingFaceLLM.invoke
    hf_requests,        \* the requests sent by the current (or last) invoke
    hf_index,           \* position of _try_alternative_model in free_models
    hf_result           \* how the last invoke ended and its content

team_vars == <<team_memory_box, team_state, team_pc, team_trace, team_result>>
kingdom_vars == <<kingdom_memory_box, kingdom_state, kingdom_pc, kingdom_step,
                  kingdom_trace, kingdom_result>>
thread_vars == <<threads>>
robot_vars == <<robot_brain, robot_memory_box, robot_result, robot_generated,
                robot_loads>>
hf_vars == <<hf_model_name, hf_headers, hf_pc, hf_requests, hf_index,
             hf_result>>
vars == <<team_vars, kingdom_vars, thread_vars, robot_vars, hf_vars>>

(***************************************************************************)
(* Bounds of the model.                                                    *)
(***************************************************************************)
MaxWords == 1          \* Vocabulary entries per question put to BookRobotTeam
MaxKingdomWords == 1   \* KingdomVocabulary entries per question put to RobotKingdom
MaxMessages == 4       \* read_book is not called with this many messages held
MaxThreadCalls == 2    \* calls a thread makes into the shared RobotKingdom

(***************************************************************************)
(* Python string primitives.                                               *)
(***************************************************************************)
Min(a, b) == IF a < b THEN a ELSE b

UpperToLower ==
    [A |-> "a", B |-> "b", C |-> "c", D |-> "d", E |-> "e", F |-> "f", G |->
    "g", H |-> "h", I |-> "i", J |-> "j", K |-> "k", L |-> "l", M |-> "m", N
    |-> "n", O |-> "o", P |-> "p", Q |-> "q", R |-> "r", S |-> "s", T |->
    "t", U |-> "u", V |-> "v", W |-> "w", X |-> "x", Y |-> "y", Z |-> "z"]

LowerToUpper ==
    [a |-> "A", b |-> "B", c |-> "C", d |-> "D", e |-> "E", f |-> "F", g |->
    "G", h |-> "H", i |-> "I", j |-> "J", k |-> "K", l |-> "L", m |-> "M", n
    |-> "N", o |-> "O", p |-> "P", q |-> "Q", r |-> "R", s |-> "S", t |->
    "T", u |-> "U", v |-> "V", w |-> "W", x |-> "X", y |-> "Y", z |-> "Z"]

Whitespace == {" ", "\n"}

\* str.lower(), one character
LowerChar(c) == IF c \in DOMAIN UpperToLower THEN UpperToLower[c] ELSE c

\* str.lower()
Lower(s) == [i \in 1..Len(s) |-> LowerChar(s[i])]

\* str.upper(), one character
UpperChar(c) == IF c \in DOMAIN LowerToUpper THEN LowerToUpper[c] ELSE c

\* str.upper()
Upper(s) == [i \in 1..Len(s) |-> UpperChar(s[i])]

\* the operator "sub in s" on strings
Contains(s, sub) ==
    \E i \in 0..(Len(s) - Len(sub)) : SubSeq(s, i + 1, i + Len(sub)) = sub

\* any(word in s for word in words)
AnyIn(words, s) == \E i \in 1..Len(words) : Contains(s, words[i])

\* s[:n]
Take(s, n) == SubSeq(s, 1, Min(n, Len(s)))

\* truthiness of a str or a list
Truthy(s) == Len(s) > 0

RECURSIVE Join(_, _)
\* sep.join(parts)
Join(parts, sep) ==
    IF Len(parts) = 0 THEN <<>>
    ELSE IF Len(parts) = 1 THEN parts[1]
    ELSE parts[1] \o sep \o Join(Tail(parts), sep)

RECURSIVE LStrip(_)
LStrip(s) ==
    IF Len(s) > 0 /\ s[1] \in Whitespace THEN LStrip(Tail(s)) ELSE s

RECURSIVE RStrip(_)
RStrip(s) ==
    IF Len(s) > 0 /\ s[Len(s)] \in Whitespace
    THEN RStrip(SubSeq(s, 1, Len(s) - 1)) ELSE s

\* str.strip()
Strip(s) == RStrip(LStrip(s))

\* the pieces of cur \o s between the characters of seps, in order; with
\* keepEmpty the empty pieces are kept (str.split(sep)), without it they
\* are dropped (str.split())
SplitAcc(s, seps, cur, keepEmpty) ==
    LET t == cur \o s
        at == SelectSeq([i \in 1..Len(t) |-> i], LAMBDA i : t[i] \in seps)
        n == Len(at)
        pieces == [k \in 1..(n + 1) |->
                     SubSeq(t, (IF k = 1 THEN 0 ELSE at[k - 1]) + 1,
                               (IF k = n + 1 THEN Len(t) + 1 ELSE at[k]) - 1)]
    IN  IF keepEmpty THEN pieces
        ELSE SelectSeq(pieces, LAMBDA piece : Len(piece) > 0)

\* str.split(): on runs of whitespace, no empty words
SplitWhitespace(s) == SplitAcc(s, Whitespace, <<>>, FALSE)

\* str.split('.'): on every '.', empty pieces kept
SplitDot(s) == SplitAcc(s, {"."}, <<>>, TRUE)

\* str.isupper() / str.islower() of one character
IsUpper(c) == c \in DOMAIN UpperToLower
IsLower(c) == c \in DOMAIN LowerToUpper
IsCased(c) == IsUpper(c) \/ IsLower(c)

\* str.isalpha()
IsAlpha(w) == Len(w) > 0 /\ \A i \in 1..Len(w) : IsCased(w[i])

\* str.istitle(): an upper-case letter only after an uncased character, a
\* lower-case letter only after a cased one, and at least one cased character
IsTitle(w) ==
    /\ \E i \in 1..Len(w) : IsCased(w[i])
    /\ \A i \in 1..Len(w) :
          /\ IsUpper(w[i]) => (i = 1 \/ ~IsCased(w[i - 1]))
          /\ IsLower(w[i]) => (i > 1 /\ IsCased(w[i - 1]))

RECURSIVE StripChars(_, _)
\* str.strip(chars)
StripChars(w, chars) ==
    IF Len(w) > 0 /\ w[1] \in chars THEN StripChars(Tail(w), chars)
    ELSE IF Len(w) > 0 /\ w[Len(w)] \in chars
         THEN StripChars(SubSeq(w, 1, Len(w) - 1), chars)
         ELSE w

(***************************************************************************)
(* The external collaborators: the text splitter and the vector store.     *)
(* A book is the sequence of its paragraphs (the pieces between blank      *)
(* lines); the empty book "" is <<>>.                                      *)
(***************************************************************************)
ChunkSize == 500
ChunkOverlap == 50
SearchK == 3

Separator == <<"\n", "\n">>

SepIf(cond) == IF cond THEN Len(Separator) ELSE 0

\* the text of a chunk made of the pieces cur, or <<>> when it is blank
JoinDoc(cur) == Strip(Join(cur, Separator))

RECURSIVE Shrink(_, _, _)
\* drop pieces from the front of the window until the overlap fits
Shrink(cur, total, len) ==
    IF \/ total > ChunkOverlap
       \/ (total + len + SepIf(Len(cur) > 0) > ChunkSize /\ total > 0)
    THEN Shrink(Tail(cur), total - (Len(cur[1]) + SepIf(Len(cur) > 1)), len)
    ELSE [cur |-> cur, total |-> total]

RECURSIVE MergeSplits(_, _, _, _)
\* pieces are gathered into a chunk until the next one would pass ChunkSize
MergeSplits(splits, cur, total, docs) ==
    IF Len(splits) = 0
    THEN IF Truthy(JoinDoc(cur)) THEN Append(docs, JoinDoc(cur)) ELSE docs
    ELSE LET d == splits[1]
             flush == /\ total + Len(d) + SepIf(Len(cur) > 0) > ChunkSize
                      /\ Len(cur) > 0
             docs2 == IF flush /\ Truthy(JoinDoc(cur))
                      THEN Append(docs, JoinDoc(cur)) ELSE docs
             sh == IF flush THEN Shrink(cur, total, Len(d))
                   ELSE [cur |-> cur, total |-> total]
             cur2 == Append(sh.cur, d)
         IN  MergeSplits(Tail(splits), cur2,
                         sh.total + Len(d) + SepIf(Len(cur2) > 1), docs2)

\* CharacterTextSplitter(chunk_size=500, chunk_overlap=50).split_text(text)
SplitText(book) ==
    MergeSplits(SelectSeq(book, LAMBDA p : Len(p) > 0), <<>>, 0, <<>>)

\* self.memory_box = None
NoMemoryBox == [built |-> FALSE, chunks |-> <<>>]

\* Chroma.from_texts(chunks, embeddings, persist_directory=...)
FromTexts(chunks) == [built |-> TRUE, chunks |-> chunks]

\* truthiness of self.memory_box
HasMemoryBox(box) == box.built

\* memory_box.similarity_search(question, k): the k best-ranked chunks; the
\* ranking is the store's own and is taken to be the stored order
SimilaritySearch(box, question, k) == Take(box.chunks, k)

\* the non-empty text of a book: the truthiness of book_content
BookTruthy(book) == \E i \in 1..Len(book) : Len(book[i]) > 0

(***************************************************************************)
(* Inputs: the questions and the books the model draws from.               *)
(***************************************************************************)
\* what a question put to BookRobotTeam is made of: words and short phrases
Vocabulary ==
    <<<<"W","h","o">>,
      <<"w","h","o","l","e">>,
      <<"W","h","a","t">>,
      <<"a","b","o","u","t">>,
      <<"w","h","e","r","e">>,
      <<"W","H","Y">>,
      <<"r","e","a","s","o","n">>,
      <<"a","n","a","l","y","z","e">>,
      <<"m","e","a","n","i","n","g","l","e","s","s">>,
      <<"s","h","o","w">>,
      <<"s","u","m","m","a","r","y">>,
      <<"d","r","a","g","o","n">>,
      <<"r","e","a","s","o","n"," ","W","h","o">>,
      <<"W","h","o"," ","k","n","o","w","s"," ","W","H","Y">>,
      <<"W","h","o"," ","i","s"," ","t","h","e"," ","m","a","i","n"," ",
        "c","h","a","r","a","c","t","e","r","?">>>>

\* what a question put to RobotKingdom is made of
KingdomVocabulary ==
    <<<<"W","h","o">>,
      <<"W","h","a","t">>,
      <<"W","H","Y">>,
      <<"b","e","c","a","u","s","e">>,
      <<"s","u","m","m","a","r","y">>,
      <<"d","r","a","g","o","n">>,
      <<"W","h","o"," ","k","n","o","w","s"," ","W","H","Y">>>>

\* the entries ws (indices into vocabulary) separated by single spaces
Phrase(vocabulary, ws) ==
    Join([i \in 1..Len(ws) |-> vocabulary[ws[i]]], <<" ">>)

EmptyQuestion == <<>>
BlankQuestion == <<" ", " ", " ">>

\* the questions of at most n entries of vocabulary, and the two blank ones
QuestionsOver(vocabulary, n) ==
    {EmptyQuestion, BlankQuestion}
    \cup {Phrase(vocabulary, ws) :
            ws \in UNION {[1..m -> 1..Len(vocabulary)] : m \in 1..n}}

Questions == QuestionsOver(Vocabulary, MaxWords)

EmptyBook == <<>>
LancelotBook == <<<<"S","i","r"," ","L","a","n","c","e","l","o","t"," ","s","l","e","w"," ","t","h","e"," ","d","r","a","g","o","n",".">>>>
KnightBook ==
    <<<<"t","h","e"," ","k","n","i","g","h","t"," ","r","o","d","e"," ","o","u","t",".">>,
      <<"A","r","t","h","u","r"," ","w","a","s"," ","k","i","n","g",".">>>>

\* the sample book of robot_memory.py, lines 138-145: one paragraph
SampleBook ==
    << <<"\n"," "," "," "," "," "," "," "," "," "," "," "," ","O",
       "n","c","e"," ","u","p","o","n"," ","a"," ","t","i","m",
       "e",","," ","t","h","e","r","e"," ","w","a","s"," ","a",
       " ","b","r","a","v","e"," ","k","n","i","g","h","t"," ",
       "n","a","m","e","d"," ","S","i","r"," ","L","a","n","c",
       "e","l","o","t","."," ","\n"," "," "," "," "," "," "," ",
       " "," "," "," "," ","H","e"," ","l","i","v","e","d"," ",
       "i","n"," ","a"," ","c","a","s","t","l","e"," ","w","i",
       "t","h"," ","K","i","n","g"," ","A","r","t","h","u","r",
       " ","a","n","d"," ","t","h","e"," ","K","n","i","g","h",
       "t","s"," ","o","f"," ","t","h","e"," ","R","o","u","n",
       "d"," ","T","a","b","l","e",".","\n"," "," "," "," "," ",
       " "," "," "," "," "," "," ","S","i","r"," ","L","a","n",
       "c","e","l","o","t"," ","w","a","s"," ","k","n","o","w",
       "n"," ","f","o","r"," ","h","i","s"," ","c","o","u","r",
       "a","g","e"," ","a","n","d"," ","h","i","s"," ","s","k",
       "i","l","l"," ","w","i","t","h"," ","a"," ","s","w","o",
       "r","d",".","\n"," "," "," "," "," "," "," "," "," "," ",
       " "," ","H","e"," ","w","e","n","t"," ","o","n"," ","m",
       "a","n","y"," ","a","d","v","e","n","t","u","r","e","s",
       " ","t","o"," ","p","r","o","t","e","c","t"," ","t","h",
       "e"," ","k","i","n","g","d","o","m"," ","f","r","o","m",
       " ","d","r","a","g","o","n","s"," ","a","n","d"," ","e",
       "v","i","l"," ","w","i","z","a","r","d","s",".","\n"," ",
       " "," "," "," "," "," "," "," "," "," "," ","T","h","e",
       " ","p","e","o","p","l","e"," ","l","o","v","e","d"," ",
       "h","i","m"," ","b","e","c","a","u","s","e"," ","h","e",
       " ","w","a","s"," ","a","l","w","a","y","s"," ","k","i",
       "n","d"," ","a","n","d"," ","h","e","l","p","f","u","l",
       ".","\n"," "," "," "," "," "," "," "," "," "," "," "," ",
       "O","n","e"," ","d","a","y",","," ","h","e"," ","s","a",
       "v","e","d"," ","a"," ","v","i","l","l","a","g","e"," ",
       "f","r","o","m"," ","a"," ","t","e","r","r","i","b","l",
       "e"," ","d","r","a","g","o","n"," ","t","h","a","t"," ",
       "w","a","s"," ","b","u","r","n","i","n","g"," ","t","h",
       "e","i","r"," ","h","o","m","e","s",".","\n"," "," "," ",
       " "," "," "," "," "," "," "," "," " >> >>

\* the first sample question asked about it (robot_memory.py, line 153)
SampleQuestion == <<"W","h","o"," ","i","s"," ","t","h","e"," ","m","a","i","n"," ","c","h","a","r","a","c","t","e","r","?">>

Books == {EmptyBook, LancelotBook, KnightBook, SampleBook}

(***************************************************************************)
(* BookRobotTeam (book_robot_langgraph.py)                                 *)
(***************************************************************************)
RouteKeywords ==
    <<<<"w","h","y">>,
      <<"a","n","a","l","y","z","e">>,
      <<"m","e","a","n","i","n","g">>,
      <<"s","i","g","n","i","f","i","c","a","n","c","e">>,
      <<"i","n","t","e","r","p","r","e","t">>>>

\* a slip: the question is matched without being lower-cased
_route_after_detective_no_lower(state) ==
    IF AnyIn(RouteKeywords, state.question) THEN "wisdom" ELSE "writer"

\* BookRobotTeam._route_after_detective
_route_after_detective(state) ==
    IF AnyIn(RouteKeywords, Lower(state.question)) THEN "wisdom" ELSE "writer"

CharacterKeywords == <<<<"w","h","o">>,
                       <<"c","h","a","r","a","c","t","e","r">>,
                       <<"p","e","r","s","o","n">>>>
DescriptionKeywords == <<<<"w","h","a","t">>,
                         <<"d","e","s","c","r","i","b","e">>,
                         <<"e","x","p","l","a","i","n">>>>
LocationKeywords == <<<<"w","h","e","r","e">>,
                      <<"p","l","a","c","e">>,
                      <<"l","o","c","a","t","i","o","n">>,
                      <<"s","e","t","t","i","n","g">>>>
ReasoningKeywords == <<<<"w","h","y">>,
                       <<"r","e","a","s","o","n">>,
                       <<"b","e","c","a","u","s","e">>,
                       <<"p","u","r","p","o","s","e">>>>
ProcessKeywords == <<<<"h","o","w">>,
                     <<"m","e","t","h","o","d">>,
                     <<"w","a","y">>,
                     <<"p","r","o","c","e","s","s">>>>
SummaryKeywords == <<<<"s","u","m","m","a","r","i","z","e">>,
                     <<"s","u","m","m","a","r","y">>,
                     <<"o","v","e","r","v","i","e","w">>>>

\* a slip: a keyword counts only when it is a whole word of the question
QuestionType_whole_word(question) ==
    LET words == SplitWhitespace(Lower(question))
        hit(keywords) ==
            \E i \in 1..Len(words), j \in 1..Len(keywords) :
                words[i] = keywords[j]
    IN  IF hit(CharacterKeywords) THEN "CHARACTER_IDENTIFICATION"
        ELSE IF hit(DescriptionKeywords) THEN "DESCRIPTION_REQUEST"
        ELSE IF hit(LocationKeywords) THEN "LOCATION_INQUIRY"
        ELSE IF hit(ReasoningKeywords) THEN "REASONING_QUESTION"
        ELSE IF hit(ProcessKeywords) THEN "PROCESS_QUESTION"
        ELSE IF hit(SummaryKeywords) THEN "SUMMARY_REQUEST"
        ELSE "GENERAL_QUESTION"

\* a slip: the reasoning words are tested before the character words
QuestionType_reasoning_first(question) ==
    LET q == Lower(question)
    IN  IF AnyIn(ReasoningKeywords, q) THEN "REASONING_QUESTION"
        ELSE IF AnyIn(CharacterKeywords, q) THEN "CHARACTER_IDENTIFICATION"
        ELSE IF AnyIn(DescriptionKeywords, q) THEN "DESCRIPTION_REQUEST"
        ELSE IF AnyIn(LocationKeywords, q) THEN "LOCATION_INQUIRY"
        ELSE IF AnyIn(ProcessKeywords, q) THEN "PROCESS_QUESTION"
        ELSE IF AnyIn(SummaryKeywords, q) THEN "SUMMARY_REQUEST"
        ELSE "GENERAL_QUESTION"

\* the if/elif chain of detective_node
QuestionType(question) ==
    LET q == Lower(question)
    IN  IF AnyIn(CharacterKeywords, q) THEN "CHARACTER_IDENTIFICATION"
        ELSE IF AnyIn(DescriptionKeywords, q) THEN "DESCRIPTION_REQUEST"
        ELSE IF AnyIn(LocationKeywords, q) THEN "LOCATION_INQUIRY"
        ELSE IF AnyIn(ReasoningKeywords, q) THEN "REASONING_QUESTION"
        ELSE IF AnyIn(ProcessKeywords, q) THEN "PROCESS_QUESTION"
        ELSE IF AnyIn(SummaryKeywords, q) THEN "SUMMARY_REQUEST"
        ELSE "GENERAL_QUESTION"

Analysis(question_type) ==
    CASE question_type = "CHARACTER_IDENTIFICATION" ->
             "This question asks about people or characters in the story."
      [] question_type = "DESCRIPTION_REQUEST" ->
             "This question wants a description or explanation of something."
      [] question_type = "LOCATION_INQUIRY" ->
             "This question is about places or settings in the story."
      [] question_type = "REASONING_QUESTION" ->
             "This is a complex question that needs deep reasoning and analysis."
      [] question_type = "PROCESS_QUESTION" ->
             "This question asks about how something happens or works."
      [] question_type = "SUMMARY_REQUEST" ->
             "This question wants a summary or overview."
      [] OTHER -> "This is a general question about the book content."

\* question_type.lower().replace('_', ' ')
TypePhrase(question_type) ==
    CASE question_type = "CHARACTER_IDENTIFICATION" -> "character identification"
      [] question_type = "DESCRIPTION_REQUEST" -> "description request"
      [] question_type = "LOCATION_INQUIRY" -> "location inquiry"
      [] question_type = "REASONING_QUESTION" -> "reasoning question"
      [] question_type = "PROCESS_QUESTION" -> "process question"
      [] question_type = "SUMMARY_REQUEST" -> "summary request"
      [] question_type = "GENERAL_QUESTION" -> "general question"
      [] OTHER -> question_type

\* BookRobotState(question=..., book_content=..., everything else empty)
InitialState(question, book_content) ==
    [question |-> question, book_content |-> book_content,
     book_chunks |-> <<>>, relevant_info |-> <<>>,
     question_type |-> "", analysis |-> "",
     librarian_response |-> <<>>, detective_response |-> <<>>,
     writer_response |-> <<>>, wisdom_response |-> <<>>,
     final_answer |-> <<>>, next_action |-> "", step_count |-> 0]

\* librarian_node, lines 114-126: the memory box after the node
librarian_memory_box(box, state) ==
    IF BookTruthy(state.book_content) /\ ~HasMemoryBox(box)
    THEN FromTexts(SplitText(state.book_content))
    ELSE box

\* BookRobotTeam.librarian_node: the state after the node
librarian_node(box, state) ==
    LET built == BookTruthy(state.book_content) /\ ~HasMemoryBox(box)
        box2 == librarian_memory_box(box, state)
        search == Truthy(state.question) /\ HasMemoryBox(box2)
        relevant_chunks ==
            IF search THEN SimilaritySearch(box2, state.question, SearchK)
            ELSE <<>>
        found == IF HasMemoryBox(box2) THEN Len(relevant_chunks) ELSE 0
    IN  [state EXCEPT
           !.book_chunks = IF built THEN box2.chunks ELSE @,
           !.relevant_info = Join(relevant_chunks, <<"\n", "\n">>),
           !.librarian_response =
               <<"Found ", ToString(found),
                 " relevant book sections about your question.">>,
           !.step_count = @ + 1]

\* a slip: the detective stores the lowered question back into the state
detective_node_lowers_question(state) ==
    LET question_type == QuestionType(state.question)
    IN  [state EXCEPT
           !.question = Lower(state.question),
           !.question_type = question_type,
           !.analysis = Analysis(question_type),
           !.detective_response =
               <<"Analysis complete: ", question_type, ". ",
                 Analysis(question_type)>>,
           !.step_count = @ + 1]

\* a slip: the detective leaves step_count as it found it
detective_node_no_count(state) ==
    LET question_type == QuestionType(state.question)
    IN  [state EXCEPT
           !.question_type = question_type,
           !.analysis = Analysis(question_type),
           !.detective_response =
               <<"Analysis complete: ", question_type, ". ",
                 Analysis(question_type)>>]

\* BookRobotTeam.detective_node
detective_node(state) ==
    LET question_type == QuestionType(state.question)
    IN  [state EXCEPT
           !.question_type = question_type,
           !.analysis = Analysis(question_type),
           !.detective_response =
               <<"Analysis complete: ", question_type, ". ",
                 Analysis(question_type)>>,
           !.step_count = @ + 1]

\* a slip: the last qualifying word is reported instead of the first
_write_character_response_last_name(text) ==
    LET words == SplitWhitespace(text)
        names == SelectSeq(words,
                     LAMBDA w : IsTitle(w) /\ Len(w) > 2 /\ IsAlpha(w))
        potential_names ==
            [i \in 1..Len(names) |-> StripChars(names[i], {".", ",", "!", "?"})]
    IN  IF Truthy(potential_names)
        THEN <<"**Character Analysis**: Based on the book, the main character appears to be **">>
             \o potential_names[Len(potential_names)]
             \o <<"**. The narrative centers around their experiences and development throughout the story.">>
        ELSE <<"**Character Analysis**: The text discusses various characters, with their roles and relationships being central to the narrative.">>

\* a slip: the length test is dropped, a word of any length is a name
_write_character_response_any_length(text) ==
    LET words == SplitWhitespace(text)
        names == SelectSeq(words, LAMBDA w : IsTitle(w) /\ IsAlpha(w))
        potential_names ==
            [i \in 1..Len(names) |-> StripChars(names[i], {".", ",", "!", "?"})]
    IN  IF Truthy(potential_names)
        THEN <<"**Character Analysis**: Based on the book, the main character appears to be **">>
             \o potential_names[1]
             \o <<"**. The narrative centers around their experiences and development throughout the story.">>
        ELSE <<"**Character Analysis**: The text discusses various characters, with their roles and relationships being central to the narrative.">>

\* BookRobotTeam._write_character_response
_write_character_response(text) ==
    LET words == SplitWhitespace(text)
        names == SelectSeq(words,
                     LAMBDA w : IsTitle(w) /\ Len(w) > 2 /\ IsAlpha(w))
        potential_names ==
            [i \in 1..Len(names) |-> StripChars(names[i], {".", ",", "!", "?"})]
    IN  IF Truthy(potential_names)
        THEN <<"**Character Analysis**: Based on the book, the main character appears to be **">>
             \o potential_names[1]
             \o <<"**. The narrative centers around their experiences and development throughout the story.">>
        ELSE <<"**Character Analysis**: The text discusses various characters, with their roles and relationships being central to the narrative.">>

\* BookRobotTeam._write_description_response
_write_description_response(question, text) ==
    <<"**Detailed Description**: ">> \o Take(text, 300)
    \o <<"...\n\nThis passage provides rich context and imagery that directly relates to your question.">>

\* a slip: the excerpt is returned without the sentences around it
_write_location_response_bare(text) == Take(text, 250)

\* BookRobotTeam._write_location_response
_write_location_response(text) ==
    <<"**Setting Analysis**: The story takes place in the world described in the text:\n\n">>
    \o Take(text, 250)
    \o <<"...\n\nThe setting plays a crucial role in shaping the narrative.">>

\* BookRobotTeam._write_summary_response
_write_summary_response(text) ==
    LET pieces == SplitDot(text)
        stripped == [i \in 1..Len(pieces) |-> Strip(pieces[i])]
        sentences == Take(SelectSeq(stripped, LAMBDA x : Truthy(x)), 3)
    IN  <<"**Summary**: ">> \o Join(sentences, <<".", " ">>) \o <<".">>

\* a slip: the excerpt is returned without the template around it
_write_general_response_bare(question, text) == Take(text, 300)

\* BookRobotTeam._write_general_response
_write_general_response(question, text) ==
    <<"**Response**: Based on the book content, here's what's most relevant to your question:\n\n">>
    \o Take(text, 300) \o <<"...">>

\* BookRobotTeam.writer_node
writer_node(state) ==
    LET question == state.question
        question_type == state.question_type
        relevant_info == state.relevant_info
        response ==
            IF question_type = "CHARACTER_IDENTIFICATION"
            THEN _write_character_response(relevant_info)
            ELSE IF question_type = "DESCRIPTION_REQUEST"
            THEN _write_description_response(question, relevant_info)
            ELSE IF question_type = "LOCATION_INQUIRY"
            THEN _write_location_response(relevant_info)
            ELSE IF question_type = "SUMMARY_REQUEST"
            THEN _write_summary_response(relevant_info)
            ELSE _write_general_response(question, relevant_info)
    IN  [state EXCEPT !.writer_response = response, !.step_count = @ + 1]

\* BookRobotTeam.wisdom_node
wisdom_node(state) ==
    LET wisdom_response ==
            <<"**Deep Wisdom Analysis**\n\n**Your Question**: ">>
            \o state.question
            \o <<"\n\n**Deeper Context**: Looking beyond the surface, this ",
                 TypePhrase(state.question_type),
                 " touches on important themes in the narrative.\n\n**Key Insights from the Text**:\n">>
            \o Take(state.relevant_info, 400)
            \o <<"...\n\n**Philosophical Consideration**: The answer involves understanding both the literal events and their symbolic significance within the broader story context.\n\n**Thoughtful Reflection**: Great literature often contains layers of meaning. Your question invites us to explore not just what happens, but why it matters in the larger tapestry of the story.">>
    IN  [state EXCEPT !.wisdom_response = wisdom_response,
                      !.step_count = @ + 1]

\* a slip: every report is appended, an empty one too
team_reports_no_skip(state) ==
    << <<"**Librarian**: ">> \o state.librarian_response,
       <<"**Detective**: ">> \o state.detective_response,
       <<"**Writer**: ">> \o state.writer_response,
       <<"**Wisdom**: ">> \o state.wisdom_response >>

\* king_node, lines 253-266: the reports of the steps that wrote one
team_reports(state) ==
    (IF Truthy(state.librarian_response)
     THEN << <<"**Librarian**: ">> \o state.librarian_response >> ELSE <<>>)
    \o (IF Truthy(state.detective_response)
        THEN << <<"**Detective**: ">> \o state.detective_response >> ELSE <<>>)
    \o (IF Truthy(state.writer_response)
        THEN << <<"**Writer**: ">> \o state.writer_response >> ELSE <<>>)
    \o (IF Truthy(state.wisdom_response)
        THEN << <<"**Wisdom**: ">> \o state.wisdom_response >> ELSE <<>>)

\* a slip: the question is restated after the team reports
king_node_question_last(state) ==
    LET final_answer ==
            <<"**ROYAL TEAM RESPONSE**\n\n**Team Analysis Summary**:\n">>
            \o Join(team_reports(state), <<"\n">>)
            \o <<"\n\n**Your Question**: ">>
            \o state.question
            \o <<"\n\n**Final Royal Answer**: Based on my expert team's collaborative analysis, here is the comprehensive response to your inquiry about the book.">>
    IN  [state EXCEPT !.final_answer = final_answer, !.step_count = @ + 1]

\* BookRobotTeam.king_node
king_node(state) ==
    LET final_answer ==
            <<"**ROYAL TEAM RESPONSE**\n\n**Your Question**: ">>
            \o state.question
            \o <<"\n\n**Team Analysis Summary**:\n">>
            \o Join(team_reports(state), <<"\n">>)
            \o <<"\n\n**Final Royal Answer**: Based on my expert team's collaborative analysis, here is the comprehensive response to your inquiry about the book.">>
    IN  [state EXCEPT !.final_answer = final_answer, !.step_count = @ + 1]

\* _build_graph: add_edge(START, "librarian")
GraphStart == "librarian"

\* a slip: the wisdom node gets an edge to the writer instead of the king
GraphNext_wisdom_to_writer(node, state) ==
    CASE node = "librarian" -> "detective"
      [] node = "detective" ->
             [writer |-> "writer", wisdom |-> "wisdom"][_route_after_detective(state)]
      [] node = "writer" -> "king"
      [] node = "wisdom" -> "writer"
      [] node = "king" -> "END"

\* a slip: the detective gets a plain edge to the king, past both branches
GraphNext_skip_branch(node, state) ==
    CASE node = "librarian" -> "detective"
      [] node = "detective" -> "king"
      [] node = "writer" -> "king"
      [] node = "wisdom" -> "king"
      [] node = "king" -> "END"

\* _build_graph: the edges and the conditional edge out of each node, taken
\* on the state the node returned
GraphNext(node, state) ==
    CASE node = "librarian" -> "detective"
      [] node = "detective" ->
             [writer |-> "writer", wisdom |-> "wisdom"][_route_after_detective(state)]
      [] node = "writer" -> "king"
      [] node = "wisdom" -> "king"
      [] node = "king" -> "END"

\* the outcome of a call of a public method: op is the method, arg its
\* argument, kind is "none" before any call, "running" while it runs, "return"
\* or "raise" when it has ended, value the string returned
Result(op, arg, kind, value) ==
    [op |-> op, arg |-> arg, kind |-> kind, value |-> value]

\* one node of the compiled graph runs, and the graph follows its edge
TeamNode(node, after) ==
    /\ team_pc = node
    /\ team_state' = after
    /\ team_pc' = GraphNext(node, after)
    /\ team_trace' = Append(team_trace, node)
    /\ UNCHANGED <<team_result, kingdom_vars, thread_vars, robot_vars, hf_vars>>

\* BookRobotTeam.process_book(book_content)
process_book(book_content) ==
    /\ team_pc = "idle"
    /\ LET initial_state == InitialState(<<>>, book_content)
           updated_state == librarian_node(team_memory_box, initial_state)
       IN  /\ team_memory_box' = librarian_memory_box(team_memory_box, initial_state)
           /\ team_result' =
                Result("process_book", book_content, "return",
                       <<"Robot Team has read your book! Memorized ",
                         ToString(Len(updated_state.book_chunks)), " sections.">>)
    /\ UNCHANGED <<team_state, team_pc, team_trace, kingdom_vars, thread_vars, robot_vars, hf_vars>>

\* BookRobotTeam.ask_question(question), up to the start of workflow.invoke
ask_question(question) ==
    /\ team_pc = "idle"
    /\ team_state' = InitialState(question, <<>>)
    /\ team_pc' = GraphStart
    /\ team_trace' = <<>>
    /\ team_result' = Result("ask_question", question, "running", <<>>)
    /\ UNCHANGED <<team_memory_box, kingdom_vars, thread_vars, robot_vars, hf_vars>>

TeamLibrarian ==
    /\ TeamNode("librarian", librarian_node(team_memory_box, team_state))
    /\ team_memory_box' = librarian_memory_box(team_memory_box, team_state)

TeamDetective ==
    TeamNode("detective", detective_node(team_state)) /\ UNCHANGED team_memory_box

TeamWriter ==
    TeamNode("writer", writer_node(team_state)) /\ UNCHANGED team_memory_box

TeamWisdom ==
    TeamNode("wisdom", wisdom_node(team_state)) /\ UNCHANGED team_memory_box

TeamKing ==
    TeamNode("king", king_node(team_state)) /\ UNCHANGED team_memory_box

\* ask_question, line 370: return result["final_answer"]
TeamReturn ==
    /\ team_pc = "END"
    /\ team_pc' = "idle"
    /\ team_result' = Result("ask_question", team_state.question, "return",
                team_state.final_answer)
    /\ UNCHANGED <<team_memory_box, team_state, team_trace, kingdom_vars, thread_vars, robot_vars, hf_vars>>

TeamNext ==
    \/ \E book \in Books : process_book(book)
    \/ \E question \in Questions : ask_question(question)
    \/ TeamLibrarian
    \/ TeamDetective
    \/ TeamWriter
    \/ TeamWisdom
    \/ TeamKing
    \/ TeamReturn

(***************************************************************************)
(* RobotKingdom (book_robot_with_graph_flow.py)                            *)
(***************************************************************************)
KingdomQuestions == QuestionsOver(KingdomVocabulary, MaxKingdomWords)

\* RobotKingdomState.__init__ (conversation_history is never read or written)
RobotKingdomState ==
    [messages |-> <<>>, book_content |-> <<>>, book_chunks |-> <<>>,
     current_question |-> <<>>, robot_responses |-> <<>>,
     final_answer |-> <<>>, next_robot |-> "librarian"]

\* RobotMessage(from_robot, to_robot, content, message_type, data)
RobotMessage(from_robot, to_robot, content, message_type, data) ==
    [from_robot |-> from_robot, to_robot |-> to_robot, content |-> content,
     message_type |-> message_type, data |-> data]

\* RobotKingdomState.add_message
add_message(state, message) ==
    [state EXCEPT !.messages = Append(@, message)]

\* RobotKingdomState.get_messages_for_robot
get_messages_for_robot(state, robot_name) ==
    SelectSeq(state.messages, LAMBDA msg : msg.to_robot = robot_name)

\* a dict that keeps its insertion order: a sequence of <<key, value>>
DictKeys(d) == {d[i][1] : i \in 1..Len(d)}
DictSet(d, k, v) ==
    IF k \in DictKeys(d)
    THEN [i \in 1..Len(d) |-> IF d[i][1] = k THEN <<k, v>> ELSE d[i]]
    ELSE Append(d, <<k, v>>)

\* RobotKingdomState.set_robot_response
set_robot_response(state, robot_name, response) ==
    [state EXCEPT !.robot_responses = DictSet(@, robot_name, response)]

\* data.get(key, "")
DataGet(data, key) == IF key \in DOMAIN data THEN data[key] ELSE <<>>

\* a slip: the librarian also adds every question it is asked to the index
LibrarianRobot_memory_box_adds_question(box, state) ==
    IF BookTruthy(state.book_content) /\ ~HasMemoryBox(box)
    THEN FromTexts(SplitText(state.book_content))
    ELSE IF Truthy(state.current_question) /\ HasMemoryBox(box)
    THEN [box EXCEPT !.chunks = Append(@, state.current_question)]
    ELSE box

\* LibrarianRobot.work, lines 62-73: the memory box after the call
LibrarianRobot_memory_box(box, state) ==
    IF BookTruthy(state.book_content) /\ ~HasMemoryBox(box)
    THEN FromTexts(SplitText(state.book_content))
    ELSE box

\* LibrarianRobot.work, lines 76-95: the search for the current question on
\* the memory box as it is now, and the hand-over to the detective
LibrarianRobot_search(box, state) ==
    LET relevant_chunks ==
            SimilaritySearch(box, state.current_question, SearchK)
        relevant_text == Join(relevant_chunks, <<"\n">>)
        response ==
            <<"I found ", ToString(Len(relevant_chunks)),
              " relevant sections about your question. Here's what I discovered:\n\n">>
            \o relevant_text
        message ==
            RobotMessage("librarian", "detective",
                <<"I found relevant book information. Please analyze it.">>,
                "task", [relevant_text |-> relevant_text])
    IN  IF Truthy(state.current_question) /\ HasMemoryBox(box)
        THEN [add_message(set_robot_response(state, "librarian", response),
                          message)
                EXCEPT !.next_robot = "detective"]
        ELSE state

\* LibrarianRobot.work: the state after the call
LibrarianRobot_work(box, state) ==
    LET built == BookTruthy(state.book_content) /\ ~HasMemoryBox(box)
        box2 == LibrarianRobot_memory_box(box, state)
        state1 == IF built THEN [state EXCEPT !.book_chunks = box2.chunks]
                  ELSE state
    IN  LibrarianRobot_search(box2, state1)

KingdomCharacterKeywords == <<<<"w","h","o">>,
                              <<"c","h","a","r","a","c","t","e","r">>,
                              <<"p","e","r","s","o","n">>>>
KingdomDescriptionKeywords == <<<<"w","h","a","t">>,
                                <<"d","e","s","c","r","i","b","e">>,
                                <<"e","x","p","l","a","i","n">>>>
KingdomReasoningKeywords == <<<<"w","h","y">>,
                              <<"b","e","c","a","u","s","e">>,
                              <<"r","e","a","s","o","n">>>>
KingdomSummaryKeywords == <<<<"s","u","m","m","a","r","i","z","e">>,
                            <<"s","u","m","m","a","r","y">>,
                            <<"o","v","e","r","v","i","e","w">>>>

\* a slip: a SUMMARY question is sent to a robot the kingdom does not have
DetectiveAnalysis_unknown_robot(question) ==
    LET q == Lower(question)
    IN  IF AnyIn(KingdomCharacterKeywords, q)
        THEN [analysis |-> <<"CHARACTER">>, next_robot_choice |-> "writer"]
        ELSE IF AnyIn(KingdomDescriptionKeywords, q)
        THEN [analysis |-> <<"DESCRIPTION">>, next_robot_choice |-> "writer"]
        ELSE IF AnyIn(KingdomReasoningKeywords, q)
        THEN [analysis |-> <<"REASONING">>, next_robot_choice |-> "wisdom"]
        ELSE IF AnyIn(KingdomSummaryKeywords, q)
        THEN [analysis |-> <<"SUMMARY">>, next_robot_choice |-> "summarizer"]
        ELSE [analysis |-> <<>>, next_robot_choice |-> "writer"]

\* DetectiveRobot.work, lines 118-135: analysis and next_robot_choice
DetectiveAnalysis(question) ==
    LET q == Lower(question)
    IN  IF AnyIn(KingdomCharacterKeywords, q)
        THEN [analysis |-> <<"This is a ", "CHARACTER",
                             " question. I need to identify people/characters.">>,
              next_robot_choice |-> "writer"]
        ELSE IF AnyIn(KingdomDescriptionKeywords, q)
        THEN [analysis |-> <<"This is a ", "DESCRIPTION",
                             " question. I need to explain something.">>,
              next_robot_choice |-> "writer"]
        ELSE IF AnyIn(KingdomReasoningKeywords, q)
        THEN [analysis |-> <<"This is a ", "REASONING",
                             " question. I should get the wisdom robot involved.">>,
              next_robot_choice |-> "wisdom"]
        ELSE IF AnyIn(KingdomSummaryKeywords, q)
        THEN [analysis |-> <<"This is a ", "SUMMARY",
                             " question. Perfect job for the writer robot.">>,
              next_robot_choice |-> "writer"]
        ELSE [analysis |-> <<>>, next_robot_choice |-> "writer"]

\* DetectiveRobot.work, line 144: question_lower.split()[0] raises IndexError
\* when the question holds no word
DetectiveRobot_raises(state) ==
    /\ Truthy(get_messages_for_robot(state, "detective"))
    /\ ~Truthy(SplitWhitespace(Lower(state.current_question)))

\* DetectiveRobot.work: the state after the call (when it raises, the state
\* as the exception leaves it: the response is set, no message is sent)
DetectiveRobot_work(state) ==
    LET my_messages == get_messages_for_robot(state, "detective")
        latest_message == my_messages[Len(my_messages)]
        relevant_text == DataGet(latest_message.data, "relevant_text")
        question_lower == Lower(state.current_question)
        found == DetectiveAnalysis(state.current_question)
        response ==
            <<"DETECTIVE ANALYSIS:\n">> \o found.analysis
            \o <<"\n\nRelevant information found: ",
                 ToString(Len(relevant_text)), " characters of text.">>
        state1 == set_robot_response(state, "detective", response)
        message ==
            RobotMessage("detective", found.next_robot_choice,
                <<"Please handle this ">>
                \o Upper(SplitWhitespace(question_lower)[1])
                \o <<" question.">>,
                "task",
                [analysis |-> found.analysis, relevant_text |-> relevant_text])
    IN  IF ~Truthy(my_messages) THEN state
        ELSE IF DetectiveRobot_raises(state) THEN state1
        ELSE [add_message(state1, message)
                EXCEPT !.next_robot = found.next_robot_choice]

\* WriterRobot._write_character_response
WriterRobot_write_character_response(question, text) ==
    LET words == SplitWhitespace(text)
        potential_names ==
            SelectSeq(words, LAMBDA w : IsTitle(w) /\ Len(w) > 2 /\ IsAlpha(w))
    IN  IF Truthy(potential_names)
        THEN <<"Based on the book, the main character appears to be **">>
             \o potential_names[1]
             \o <<"**. The text mentions them in the context of the story events.">>
        ELSE <<"The text discusses various characters, though the specific main character isn't immediately clear from this section.">>

\* WriterRobot._write_description_response
WriterRobot_write_description_response(question, text) ==
    <<"Based on the book content:\n\n">> \o Take(text, 300)
    \o <<"...\n\nThis provides context for your question about the story elements.">>

\* WriterRobot._write_summary_response
WriterRobot_write_summary_response(text) ==
    <<"**Summary**: ">> \o Join(Take(SplitDot(text), 3), <<".", " ">>) \o <<".">>

\* WriterRobot._write_general_response
WriterRobot_write_general_response(question, text) ==
    <<"**Answer**: Based on the book content, here's what I found relevant to your question:\n\n">>
    \o Take(text, 200) \o <<"...">>

\* WriterRobot.work
WriterRobot_work(state) ==
    LET my_messages == get_messages_for_robot(state, "writer")
        latest_message == my_messages[Len(my_messages)]
        relevant_text == DataGet(latest_message.data, "relevant_text")
        analysis == DataGet(latest_message.data, "analysis")
        response ==
            IF Contains(analysis, <<"CHARACTER">>)
            THEN WriterRobot_write_character_response(state.current_question,
                                                      relevant_text)
            ELSE IF Contains(analysis, <<"DESCRIPTION">>)
            THEN WriterRobot_write_description_response(state.current_question,
                                                        relevant_text)
            ELSE IF Contains(analysis, <<"SUMMARY">>)
            THEN WriterRobot_write_summary_response(relevant_text)
            ELSE WriterRobot_write_general_response(state.current_question,
                                                    relevant_text)
        message ==
            RobotMessage("writer", "king",
                <<"I've written a response. Please review and finalize.">>,
                "result", [written_response |-> response])
    IN  IF ~Truthy(my_messages) THEN state
        ELSE [add_message(set_robot_response(state, "writer", response), message)
                EXCEPT !.next_robot = "king"]

\* a slip: the wisdom robot hands its analysis to the writer, not to the king
WisdomRobot_work_to_writer(state) ==
    LET my_messages == get_messages_for_robot(state, "wisdom")
        latest_message == my_messages[Len(my_messages)]
        relevant_text == DataGet(latest_message.data, "relevant_text")
        wisdom_response ==
            <<"**Deep Analysis**: ">> \o Take(relevant_text, 250)
        message ==
            RobotMessage("wisdom", "writer",
                <<"I've provided deep analysis. Ready for final decision.">>,
                "result", [relevant_text |-> relevant_text])
    IN  IF ~Truthy(my_messages) THEN state
        ELSE [add_message(set_robot_response(state, "wisdom", wisdom_response),
                          message)
                EXCEPT !.next_robot = "writer"]

\* WisdomRobot.work
WisdomRobot_work(state) ==
    LET my_messages == get_messages_for_robot(state, "wisdom")
        latest_message == my_messages[Len(my_messages)]
        relevant_text == DataGet(latest_message.data, "relevant_text")
        wisdom_response ==
            <<"**Deep Analysis**: \n\nYour question touches on important themes in the text. Looking at the broader context:\n\n">>
            \o Take(relevant_text, 250)
            \o <<"...\n\n**Key Insights:**\n- The narrative structure suggests underlying meanings\n- Character motivations may be more complex than they first appear  \n- The author's choices in language reveal deeper themes\n\n**Thoughtful Response**: The answer to your question likely involves understanding both the literal events and their symbolic meaning within the story's context.">>
        message ==
            RobotMessage("wisdom", "king",
                <<"I've provided deep analysis. Ready for final decision.">>,
                "result", [wisdom_response |-> wisdom_response])
    IN  IF ~Truthy(my_messages) THEN state
        ELSE [add_message(set_robot_response(state, "wisdom", wisdom_response),
                          message)
                EXCEPT !.next_robot = "king"]

\* robot_name.title()
Title(robot_name) ==
    CASE robot_name = "librarian" -> "Librarian"
      [] robot_name = "detective" -> "Detective"
      [] robot_name = "writer" -> "Writer"
      [] robot_name = "wisdom" -> "Wisdom"
      [] robot_name = "king" -> "King"

\* a slip: the reports are collected from the last entry to the first
all_responses_reversed(state) ==
    [i \in 1..Len(state.robot_responses) |->
        LET j == Len(state.robot_responses) + 1 - i
        IN  <<"**", Title(state.robot_responses[j][1]), " Robot Report:**\n">>
            \o state.robot_responses[j][2] \o <<"\n">>]

\* KingRobot.work, lines 275-278: one report per entry of robot_responses,
\* in the dict's order
all_responses(state) ==
    [i \in 1..Len(state.robot_responses) |->
        <<"**", Title(state.robot_responses[i][1]), " Robot Report:**\n">>
        \o state.robot_responses[i][2] \o <<"\n">>]

\* a slip: the king appends the new answer to the answer already in the state
KingRobot_work_appends(state) ==
    LET final_answer ==
            <<"**ROYAL ROBOT TEAM RESPONSE**\n\n**Question**: ">>
            \o state.current_question
            \o <<"\n\n**Team Analysis:**\n">>
            \o Join(all_responses(state), <<"\n">>)
            \o <<"\n\n**Final Royal Decree**: Based on my team's analysis, here's the comprehensive answer to your question.">>
    IN  [state EXCEPT !.final_answer = @ \o final_answer,
                      !.next_robot = "complete"]

\* KingRobot.work
KingRobot_work(state) ==
    LET final_answer ==
            <<"**ROYAL ROBOT TEAM RESPONSE**\n\n**Question**: ">>
            \o state.current_question
            \o <<"\n\n**Team Analysis:**\n">>
            \o Join(all_responses(state), <<"\n">>)
            \o <<"\n\n**Final Royal Decree**: Based on my team's analysis, here's the comprehensive answer to your question.">>
    IN  [state EXCEPT !.final_answer = final_answer,
                      !.next_robot = "complete"]

\* RobotKingdom.__init__: the keys of self.robots
Robots == {"librarian", "detective", "writer", "wisdom", "king"}

\* self.robots[current_robot_name].work(self.state)
RobotWork(robot_name, box, state) ==
    CASE robot_name = "librarian" -> LibrarianRobot_work(box, state)
      [] robot_name = "detective" -> DetectiveRobot_work(state)
      [] robot_name = "writer" -> WriterRobot_work(state)
      [] robot_name = "wisdom" -> WisdomRobot_work(state)
      [] robot_name = "king" -> KingRobot_work(state)

\* the work call ends in an exception
RobotRaises(robot_name, state) ==
    robot_name = "detective" /\ DetectiveRobot_raises(state)

\* ask_question, line 331
max_steps == 10

\* RobotKingdom.read_book(book_content)
read_book(book_content) ==
    /\ kingdom_pc = "idle"
    /\ Len(kingdom_state.messages) < MaxMessages
    /\ LET state0 == [kingdom_state EXCEPT !.book_content = book_content,
                                            !.next_robot = "librarian"]
           state1 == LibrarianRobot_work(kingdom_memory_box, state0)
       IN  /\ kingdom_memory_box' =
                LibrarianRobot_memory_box(kingdom_memory_box, state0)
           /\ kingdom_state' = state1
           /\ kingdom_result' =
                Result("read_book", book_content, "return",
                       <<"The Robot Kingdom has read your book! ",
                         ToString(Len(state1.book_chunks)),
                         " sections memorized.">>)
    /\ UNCHANGED <<kingdom_pc, kingdom_step, kingdom_trace, team_vars, thread_vars, robot_vars, hf_vars>>

\* RobotKingdom.ask_question(question), lines 324-332: the reset
KingdomAsk(question) ==
    /\ kingdom_pc = "idle"
    /\ kingdom_state' = [kingdom_state EXCEPT !.current_question = question,
                                              !.robot_responses = <<>>,
                                              !.messages = <<>>,
                                              !.next_robot = "librarian"]
    /\ kingdom_step' = 0
    /\ kingdom_pc' = "loop"
    /\ kingdom_trace' = <<>>
    /\ kingdom_result' = Result("ask_question", question, "running", <<>>)
    /\ UNCHANGED <<kingdom_memory_box, team_vars, thread_vars, robot_vars, hf_vars>>

\* a slip: the loop tests next_robot alone, without the step bound
LoopGuard_no_step_bound == kingdom_state.next_robot # "complete"

\* the guard of the while loop, line 334
LoopGuard == kingdom_state.next_robot # "complete" /\ kingdom_step < max_steps

\* ask_question, lines 335-342: one iteration of the while loop
KingdomStep ==
    /\ kingdom_pc = "loop"
    /\ LoopGuard
    /\ kingdom_step' = kingdom_step + 1
    /\ LET current_robot_name == kingdom_state.next_robot
       IN  IF current_robot_name \in Robots
           THEN /\ kingdom_state' =
                     RobotWork(current_robot_name, kingdom_memory_box,
                               kingdom_state)
                /\ kingdom_memory_box' =
                     IF current_robot_name = "librarian"
                     THEN LibrarianRobot_memory_box(kingdom_memory_box,
                                                    kingdom_state)
                     ELSE kingdom_memory_box
                /\ kingdom_trace' = Append(kingdom_trace, current_robot_name)
                /\ IF RobotRaises(current_robot_name, kingdom_state)
                   THEN /\ kingdom_pc' = "idle"
                        /\ kingdom_result' =
                             Result("ask_question", kingdom_state.current_question,
                                    "raise", <<"IndexError">>)
                   ELSE UNCHANGED <<kingdom_pc, kingdom_result>>
           ELSE /\ kingdom_pc' = "break"
                /\ UNCHANGED <<kingdom_state, kingdom_memory_box,
                               kingdom_trace, kingdom_result>>
    /\ UNCHANGED <<team_vars, thread_vars, robot_vars, hf_vars>>

\* ask_question, lines 344-345: return self.state.final_answer
KingdomReturn ==
    /\ \/ kingdom_pc = "loop" /\ ~LoopGuard
       \/ kingdom_pc = "break"
    /\ kingdom_pc' = "idle"
    /\ kingdom_result' =
         Result("ask_question", kingdom_state.current_question, "return",
                kingdom_state.final_answer)
    /\ UNCHANGED <<kingdom_memory_box, kingdom_state, kingdom_step,
                   kingdom_trace, team_vars, thread_vars, robot_vars, hf_vars>>

KingdomNext ==
    \/ \E book \in Books : read_book(book)
    \/ \E question \in KingdomQuestions : KingdomAsk(question)
    \/ KingdomStep
    \/ KingdomReturn

(***************************************************************************)
(* Threads calling into one RobotKingdom.  The class holds no lock: every  *)
(* thread works on the one self.state and the one librarian.memory_box,    *)
(* and the interpreter may switch threads between any two statements.  A   *)
(* thread's call is cut into steps; each step is one action.  The          *)
(* librarian's work is cut at its two conditions (lines 62 and 76), the    *)
(* other robots' work is one step.                                         *)
(***************************************************************************)
Threads == {1, 2}

\* the questions and the books the threads call with
ConcurrentQuestions == {<<"W","h","o">>, <<"W","H","Y">>}
ConcurrentBooks == {LancelotBook, KnightBook}

\* a thread that has called nothing yet: pc is its position ("idle", or
\* "check", "build", "search" inside LibrarianRobot.work, or "loop", "break"
\* in ask_question), op and arg its call, step the local variable step of
\* ask_question, kind and value how the call ended, calls the calls made
ThreadIdle ==
    [pc |-> "idle", op |-> "none", arg |-> <<>>, step |-> 0,
     kind |-> "none", value |-> <<>>, calls |-> 0]

\* RobotKingdom.read_book, lines 311-312, up to the call of librarian.work
ThreadReadBook(t, book_content) ==
    /\ threads[t].pc = "idle"
    /\ threads[t].calls < MaxThreadCalls
    /\ kingdom_state' = [kingdom_state EXCEPT !.book_content = book_content,
                                              !.next_robot = "librarian"]
    /\ threads' = [threads EXCEPT ![t] =
                     [pc |-> "check", op |-> "read_book", arg |-> book_content,
                      step |-> 0, kind |-> "running", value |-> <<>>,
                      calls |-> @.calls + 1]]
    /\ UNCHANGED <<kingdom_memory_box, kingdom_pc, kingdom_step,
                   kingdom_trace, kingdom_result, team_vars, robot_vars, hf_vars>>

\* RobotKingdom.ask_question, lines 324-332: the reset
ThreadAsk(t, question) ==
    /\ threads[t].pc = "idle"
    /\ threads[t].calls < MaxThreadCalls
    /\ kingdom_state' = [kingdom_state EXCEPT !.current_question = question,
                                              !.robot_responses = <<>>,
                                              !.messages = <<>>,
                                              !.next_robot = "librarian"]
    /\ threads' = [threads EXCEPT ![t] =
                     [pc |-> "loop", op |-> "ask_question", arg |-> question,
                      step |-> 0, kind |-> "running", value |-> <<>>,
                      calls |-> @.calls + 1]]
    /\ UNCHANGED <<kingdom_memory_box, kingdom_pc, kingdom_step,
                   kingdom_trace, kingdom_result, team_vars, robot_vars, hf_vars>>

\* the guard of the while loop, line 334, as thread t evaluates it
ThreadLoopGuard(t) ==
    kingdom_state.next_robot # "complete" /\ threads[t].step < max_steps

\* ask_question, lines 335-342: thread t starts an iteration of the loop;
\* the librarian's work goes on in ThreadCheck, any other robot's work is
\* done here
ThreadStep(t) ==
    /\ threads[t].pc = "loop"
    /\ ThreadLoopGuard(t)
    /\ LET current_robot_name == kingdom_state.next_robot
       IN  IF current_robot_name = "librarian"
           THEN /\ threads' = [threads EXCEPT ![t].pc = "check"]
                /\ UNCHANGED kingdom_state
           ELSE IF current_robot_name \in Robots
           THEN /\ kingdom_state' =
                     RobotWork(current_robot_name, kingdom_memory_box,
                               kingdom_state)
                /\ threads' =
                     IF RobotRaises(current_robot_name, kingdom_state)
                     THEN [threads EXCEPT ![t].pc = "idle",
                                          ![t].kind = "raise",
                                          ![t].value = <<"IndexError">>]
                     ELSE [threads EXCEPT ![t].step = @ + 1]
           ELSE /\ threads' = [threads EXCEPT ![t].pc = "break"]
                /\ UNCHANGED kingdom_state
    /\ UNCHANGED <<kingdom_memory_box, kingdom_pc, kingdom_step,
                   kingdom_trace, kingdom_result, team_vars, robot_vars, hf_vars>>

\* LibrarianRobot.work, line 62: if state.book_content and not self.memory_box
ThreadCheck(t) ==
    /\ threads[t].pc = "check"
    /\ threads' = [threads EXCEPT ![t].pc =
                     IF BookTruthy(kingdom_state.book_content)
                          /\ ~HasMemoryBox(kingdom_memory_box)
                     THEN "build" ELSE "search"]
    /\ UNCHANGED <<kingdom_memory_box, kingdom_state, kingdom_pc,
                   kingdom_step, kingdom_trace, kingdom_result, team_vars, robot_vars, hf_vars>>

\* LibrarianRobot.work, lines 63-73: split the book, embed the chunks, and
\* assign self.memory_box
ThreadBuild(t) ==
    /\ threads[t].pc = "build"
    /\ LET chunks == SplitText(kingdom_state.book_content)
       IN  /\ kingdom_state' = [kingdom_state EXCEPT !.book_chunks = chunks]
           /\ kingdom_memory_box' = FromTexts(chunks)
    /\ threads' = [threads EXCEPT ![t].pc = "search"]
    /\ UNCHANGED <<kingdom_pc, kingdom_step, kingdom_trace, kingdom_result,
                   team_vars, robot_vars, hf_vars>>

\* LibrarianRobot.work, lines 76-95, and the return to the caller: read_book
\* returns its message (lines 315-317), ask_question goes on with its loop
\* (line 340)
ThreadSearch(t) ==
    /\ threads[t].pc = "search"
    /\ LET state1 == LibrarianRobot_search(kingdom_memory_box, kingdom_state)
       IN  /\ kingdom_state' = state1
           /\ threads' =
                IF threads[t].op = "read_book"
                THEN [threads EXCEPT
                        ![t].pc = "idle",
                        ![t].kind = "return",
                        ![t].value =
                            <<"The Robot Kingdom has read your book! ",
                              ToString(Len(state1.book_chunks)),
                              " sections memorized.">>]
                ELSE [threads EXCEPT ![t].pc = "loop", ![t].step = @ + 1]
    /\ UNCHANGED <<kingdom_memory_box, kingdom_pc, kingdom_step,
                   kingdom_trace, kingdom_result, team_vars, robot_vars, hf_vars>>

\* ask_question, lines 344-345: return self.state.final_answer
ThreadReturn(t) ==
    /\ \/ threads[t].pc = "loop" /\ ~ThreadLoopGuard(t)
       \/ threads[t].pc = "break"
    /\ threads' = [threads EXCEPT ![t].pc = "idle",
                                  ![t].kind = "return",
                                  ![t].value = kingdom_state.final_answer]
    /\ UNCHANGED <<kingdom_memory_box, kingdom_state, kingdom_pc,
                   kingdom_step, kingdom_trace, kingdom_result, team_vars, robot_vars, hf_vars>>

ConcurrentNext ==
    \/ \E t \in Threads, book \in ConcurrentBooks : ThreadReadBook(t, book)
    \/ \E t \in Threads, question \in ConcurrentQuestions :
          ThreadAsk(t, question)
    \/ \E t \in Threads : ThreadStep(t)
    \/ \E t \in Threads : ThreadCheck(t)
    \/ \E t \in Threads : ThreadBuild(t)
    \/ \E t \in Threads : ThreadSearch(t)
    \/ \E t \in Threads : ThreadReturn(t)

(***************************************************************************)
(* The state after construction of both orchestrators, and the            *)
(* specifications: one orchestrator runs, the other stays as constructed;  *)
(* in SpecConcurrent the RobotKingdom is called from the threads.          *)
(***************************************************************************)
(* BookRobot (robot_memory.py) and its brains (LocalLLM.py)                *)
(***************************************************************************)
\* the positions at which sub occurs in s
Occurrences(s, sub) ==
    {i \in 1..(Len(s) - Len(sub) + 1) : SubSeq(s, i, i + Len(sub) - 1) = sub}

\* s.split(sub)[0]: the text before the first occurrence of sub
BeforeFirst(s, sub) ==
    LET at == Occurrences(s, sub)
    IN  IF at = {} THEN s
        ELSE SubSeq(s, 1, (CHOOSE i \in at : \A j \in at : i <= j) - 1)

\* the text after the first occurrence of sub (sub occurs in s)
AfterFirst(s, sub) ==
    LET at == Occurrences(s, sub)
    IN  SubSeq(s, (CHOOSE i \in at : \A j \in at : i <= j) + Len(sub), Len(s))

\* s.split(sub)[-1]: the text after the last occurrence of sub
AfterLast(s, sub) ==
    LET at == Occurrences(s, sub)
    IN  IF at = {} THEN s
        ELSE SubSeq(s, (CHOOSE i \in at : \A j \in at : i >= j) + Len(sub),
                    Len(s))

\* s.split(sub)[1]: the text between the first two occurrences of sub
SplitSecond(s, sub) == BeforeFirst(AfterFirst(s, sub), sub)

\* the model names LocalLLM loads
PrimaryModel == "google/flan-t5-small"
BackupModel == "t5-small"

\* no BookRobot has been constructed yet
NoBrain == [class |-> "none", model |-> ""]

\* no BookRobot has been constructed: nothing was loaded
NoLoads == [use_local_model |-> FALSE, embeddings |-> FALSE,
            primary |-> FALSE, backup |-> FALSE]

\* a slip: the failure of the primary model is not caught, no backup is tried
LocalLLM_init_no_backup(model_name, primary, backup) ==
    IF primary THEN [raised |-> FALSE,
                     brain |-> [class |-> "LocalLLM", model |-> model_name]]
    ELSE [raised |-> TRUE, brain |-> NoBrain]

\* LocalLLM.__init__(model_name): primary and backup tell whether the
\* pipeline of the model loads; the backup's failure is not caught
LocalLLM_init(model_name, primary, backup) ==
    IF primary THEN [raised |-> FALSE,
                     brain |-> [class |-> "LocalLLM", model |-> model_name]]
    ELSE IF backup
         THEN [raised |-> FALSE,
               brain |-> [class |-> "LocalLLM", model |-> BackupModel]]
         ELSE [raised |-> TRUE, brain |-> NoBrain]

\* what self.generator(prompt, ...) can do: return a list with a generated
\* text, return an empty result, or raise
GeneratedTexts == {<<>>, <<"I","t"," ","w","a","s"," ","L","a","n","c","e","l","o","t",".">>}
ErrorTexts == {<<"CUDA out of memory">>, <<"index out of range in self">>}
GeneratorOutcomes ==
    [kind : {"text"}, text : GeneratedTexts]
        \cup {[kind |-> "empty", text |-> <<>>]}
        \cup [kind : {"raise"}, text : ErrorTexts]

\* self.generator was not called
NotGenerated == [kind |-> "none", text |-> <<>>]

\* LocalLLM.invoke(prompt).content
LocalLLM_invoke(prompt, outcome) ==
    CASE outcome.kind = "text" -> outcome.text
      [] outcome.kind = "empty" ->
             <<"I'm not sure how to answer that question.">>
      [] outcome.kind = "raise" ->
             <<"Error generating response: ">> \o outcome.text

\* the sentences SimpleLocalLLM answers with when it names nobody
SimpleResponses ==
    [what |-> <<"Based on the book content, I can see this relates to the story and characters described in the text.">>,
     where |-> <<"The events take place in the setting described in the book.">>,
     why |-> <<"The reasons are explained in the context of the story.">>,
     how |-> <<"The method or process is described in the book content.">>,
     default |-> <<"I found relevant information in the book. The answer depends on the specific context provided.">>]

\* SimpleLocalLLM.invoke(prompt).content
SimpleLocalLLM_invoke(prompt) ==
    LET prompt_lower == Lower(prompt)
        marker == <<"q","u","e","s","t","i","o","n",":">>
        question == IF Contains(prompt_lower, marker)
                    THEN Strip(AfterLast(prompt_lower, marker))
                    ELSE prompt_lower
        context == IF Contains(prompt, <<"C","o","n","t","e","x","t">>)
                   THEN BeforeFirst(SplitSecond(prompt, <<"C","o","n","t","e","x","t">>),
                                    <<"Q","u","e","s","t","i","o","n">>)
                   ELSE <<>>
        names == SelectSeq(SplitWhitespace(context),
                           LAMBDA word : IsTitle(word) /\ Len(word) > 2)
    IN  IF AnyIn(<<<<"w","h","o">>, <<"c","h","a","r","a","c","t","e","r">>, <<"p","e","r","s","o","n">>>>, question)
        THEN IF Contains(prompt_lower, <<"c","o","n","t","e","x","t">>) /\ Len(names) > 0
             THEN <<"Based on the text, the main character appears to be ">>
                      \o names[1] \o <<".">>
             ELSE SimpleResponses.default
        ELSE IF AnyIn(<<<<"w","h","a","t">>, <<"d","e","s","c","r","i","b","e">>, <<"a","b","o","u","t">>>>, question)
        THEN SimpleResponses.what
        ELSE IF AnyIn(<<<<"w","h","e","r","e">>, <<"p","l","a","c","e">>, <<"l","o","c","a","t","i","o","n">>>>, question)
        THEN SimpleResponses.where
        ELSE IF AnyIn(<<<<"w","h","y">>, <<"b","e","c","a","u","s","e">>, <<"r","e","a","s","o","n">>>>, question)
        THEN SimpleResponses.why
        ELSE IF AnyIn(<<<<"h","o","w">>, <<"w","a","y">>, <<"m","e","t","h","o","d">>>>, question)
        THEN SimpleResponses.how
        ELSE SimpleResponses.default

\* answer_question, line 59: the number of pieces searched for
HelpfulK == 2

\* the three literal parts of the prompt of answer_question, lines 65-74
PromptHead ==
    <<"\n"," "," "," "," "," "," "," "," ","H","i","!"," ","I","'","m",
      " ","y","o","u","r"," ","f","r","i","e","n","d","l","y"," ","b",
      "o","o","k"," ","r","o","b","o","t","!"," ","\n","\n"," "," "," ",
      " "," "," "," "," ","H","e","r","e","'","s"," ","w","h","a","t",
      " ","I"," ","r","e","m","e","m","b","e","r"," ","f","r","o","m",
      " ","t","h","e"," ","b","o","o","k",":","\n"," "," "," "," "," ",
      " "," "," ">>
PromptMiddle ==
    <<"\n","\n"," "," "," "," "," "," "," "," ","N","o","w",","," ","y",
      "o","u","r"," ","q","u","e","s","t","i","o","n"," ","i","s",":",
      " ">>
PromptTail ==
    <<"\n","\n"," "," "," "," "," "," "," "," ","L","e","t"," ","m","e",
      " ","g","i","v","e"," ","y","o","u"," ","a"," ","h","e","l","p",
      "f","u","l"," ","a","n","s","w","e","r"," ","b","a","s","e","d",
      " ","o","n"," ","w","h","a","t"," ","I"," ","r","e","a","d",":",
      "\n"," "," "," "," "," "," "," "," ">>

\* answer_question, lines 59-74: the prompt handed to the brain
Prompt(box, question) ==
    LET helpful_pieces == SimilaritySearch(box, question, HelpfulK)
        context == Join(helpful_pieces, <<"\n">>)
    IN  PromptHead \o context \o PromptMiddle \o question \o PromptTail

\* self.brain.invoke(prompt).content
Brain_invoke(brain, prompt, outcome) ==
    IF brain.class = "LocalLLM" THEN LocalLLM_invoke(prompt, outcome)
    ELSE SimpleLocalLLM_invoke(prompt)

\* the books and questions given to a BookRobot
RobotBooks == {LancelotBook, KnightBook, SampleBook}
ContextQuestion ==
    <<"C","o","n","t","e","x","t",":"," ","K","i","n","g"," ","A","r",
      "t","h","u","r","."," ","Q","u","e","s","t","i","o","n",":"," ",
      "w","h","o"," ","r","u","l","e","d","?">>
RobotQuestions ==
    {EmptyQuestion, SampleQuestion, ContextQuestion, <<"W","h","e","r","e">>}

\* BookRobot.__init__(use_local_model): embeddings tells whether the
\* embedding model loads, primary and backup whether LocalLLM's models do
BookRobot_init(use_local_model, embeddings, primary, backup) ==
    /\ LET local == LocalLLM_init(PrimaryModel, primary, backup)
           brain == IF use_local_model /\ ~local.raised THEN local.brain
                    ELSE [class |-> "SimpleLocalLLM", model |-> ""]
       IN  IF embeddings
           THEN /\ robot_brain' = brain
                /\ robot_memory_box' = NoMemoryBox
                /\ robot_result' = Result("__init__", <<>>, "return", <<>>)
           ELSE /\ robot_result' =
                     Result("__init__", <<>>, "raise", <<"Exception">>)
                /\ UNCHANGED <<robot_brain, robot_memory_box>>
    /\ robot_generated' = NotGenerated
    /\ robot_loads' = [use_local_model |-> use_local_model,
                       embeddings |-> embeddings,
                       primary |-> primary, backup |-> backup]
    /\ UNCHANGED <<team_vars, kingdom_vars, thread_vars, hf_vars>>

\* BookRobot.read_book(book_text)
BookRobot_read_book(book_text) ==
    /\ robot_brain # NoBrain
    /\ LET pieces == SplitText(book_text)
       IN  /\ robot_memory_box' = FromTexts(pieces)
           /\ robot_result' =
                Result("read_book", book_text, "return",
                       <<"I read your book! I broke it into ",
                         ToString(Len(pieces)),
                         " pieces to remember better!">>)
    /\ robot_generated' = NotGenerated
    /\ UNCHANGED <<robot_brain, robot_loads, team_vars, kingdom_vars,
                   thread_vars, hf_vars>>

\* BookRobot.answer_question(question); before read_book the attribute
\* memory_box does not exist and line 59 raises AttributeError
BookRobot_answer_question(question, outcome) ==
    /\ robot_brain # NoBrain
    /\ robot_generated' =
         IF HasMemoryBox(robot_memory_box) /\ robot_brain.class = "LocalLLM"
         THEN outcome ELSE NotGenerated
    /\ robot_result' =
         IF ~HasMemoryBox(robot_memory_box)
         THEN Result("answer_question", question, "raise",
                     <<"AttributeError">>)
         ELSE Result("answer_question", question, "return",
                     Brain_invoke(robot_brain,
                                  Prompt(robot_memory_box, question), outcome))
    /\ UNCHANGED <<robot_brain, robot_memory_box, robot_loads, team_vars,
                   kingdom_vars, thread_vars, hf_vars>>

RobotNext ==
    \/ \E use_local_model, embeddings, primary, backup \in BOOLEAN :
          BookRobot_init(use_local_model, embeddings, primary, backup)
    \/ \E book_text \in RobotBooks : BookRobot_read_book(book_text)
    \/ \E question \in RobotQuestions, outcome \in GeneratorOutcomes :
          BookRobot_answer_question(question, outcome)

(***************************************************************************)
(* HuggingFaceLLM (huggingfacellm.py)                                      *)
(***************************************************************************)
RECURSIVE Replace(_, _)
\* s.replace(sub, ""), sub not empty
Replace(s, sub) ==
    IF Len(s) < Len(sub) THEN s
    ELSE IF SubSeq(s, 1, Len(sub)) = sub
         THEN Replace(SubSeq(s, Len(sub) + 1, Len(s)), sub)
         ELSE <<s[1]>> \o Replace(Tail(s), sub)

\* HuggingFaceLLM.__init__, lines 22-27
free_models ==
    <<<<"g","o","o","g","l","e","/","f","l","a","n","-","t","5","-","b","a","s","e">>,
      <<"g","o","o","g","l","e","/","f","l","a","n","-","t","5","-","s","m","a","l","l">>,
      <<"b","i","g","s","c","i","e","n","c","e","/","b","l","o","o","m","-","5","6","0","m">>,
      <<"f","a","c","e","b","o","o","k","/","b","a","r","t","-","l","a","r","g","e","-","c","n","n">>>>

\* the model names a HuggingFaceLLM is configured with: the entries of
\* free_models and a model that is not among them
ModelNames ==
    {free_models[i] : i \in 1..Len(free_models)}
        \cup {<<"m","i","c","r","o","s","o","f","t","/","D","i","a","l","o","G","P","T","-","m","e","d","i","u","m">>}

\* the prompt handed to invoke
HFPrompt == <<"W","h","o","?">>

\* JSON values by Python type: a str with its text, or a value of another
\* type with the text str() gives it; Missing is an absent key
JStr(s) == [type |-> "str", text |-> s]
JList == [type |-> "list", text |-> <<"['x']">>]
JInt == [type |-> "int", text |-> <<"5">>]
Missing == [type |-> "missing", text |-> <<>>]

\* truthiness of a JSON value (the list and the int above are not empty or 0)
JTruthy(v) == IF v.type = "str" THEN Len(v.text) > 0 ELSE v.type # "missing"

\* the values of generated_text / summary_text in a response
FieldValues ==
    {JStr(<<>>), JStr(<<"L","a","n","c","e","l","o","t">>), JStr(HFPrompt),
     JStr(HFPrompt \o <<" ","L","a","n","c","e","l","o","t">>), JList, JInt}

\* what response.json() gives: a list whose first element is a dict, a list
\* whose first element is a str, an empty list, a dict, a number, or no JSON
\* at all (json() raises); gen and sum are the two keys of the dict
Payloads ==
    [shape : {"list_str", "list_empty", "scalar", "invalid"},
     gen : {Missing}, sum : {Missing}]
    \cup [shape : {"list_dict", "dict"},
          gen : FieldValues \cup {Missing},
          sum : {Missing, JStr(<<"A"," ","t","a","l","e",".">>)}]

NoPayload == [shape |-> "invalid", gen |-> Missing, sum |-> Missing]

\* what requests.post can do: raise, or return a response with a status
\* code and, for 200, a payload
Outcomes ==
    {[raised |-> TRUE, status |-> 0, payload |-> NoPayload]}
    \cup [raised : {FALSE}, status : {403, 503, 429, 500}, payload : {NoPayload}]
    \cup [raised : {FALSE}, status : {200}, payload : Payloads]

\* str(result) of a payload that is not a non-empty list
StrOf(payload) ==
    CASE payload.shape = "list_empty" -> <<"[]">>
      [] payload.shape = "scalar" -> <<"7">>
      [] payload.shape = "dict" -> <<"{...}">>
      [] OTHER -> <<>>

\* d.get('generated_text', d.get('summary_text', default))
GetText(payload, default) ==
    IF payload.gen # Missing THEN payload.gen
    ELSE IF payload.sum # Missing THEN payload.sum
    ELSE default

\* the content of the response returned when invoke's try block raises
ErrorContent ==
    JStr(<<"Let me try a different approach... Error: ", "exception">>)

\* invoke, lines 57-79: the content returned for a 200 response
Parse200(prompt, payload) ==
    LET generated_text ==
            CASE payload.shape = "list_dict" -> GetText(payload, JStr(<<>>))
              [] payload.shape = "list_str" -> JStr(<<"h","e","l","l","o">>)
              [] payload.shape = "dict" -> GetText(payload, JStr(StrOf(payload)))
              [] OTHER -> JStr(StrOf(payload))
    IN  IF payload.shape = "invalid" THEN ErrorContent
        ELSE IF ~JTruthy(generated_text)
        THEN JStr(<<"I understand your question, but I need more context to provide a good answer.">>)
        ELSE IF generated_text.type = "str"
        THEN IF Contains(generated_text.text, prompt)
             THEN JStr(Strip(Replace(generated_text.text, prompt)))
             ELSE generated_text
        ELSE IF generated_text.type = "list" THEN generated_text
        ELSE ErrorContent

\* _try_alternative_model, line 96: the condition under which model is tried
TriesModel(model, model_name) ==
    model # model_name \/ Contains(model_name, <<"f","l","a","n","-","t","5","-","b","a","s","e">>)

\* _try_alternative_model, lines 103-107: the text accepted from a response
\* of an alternative model, or Missing when the loop goes on
AltText(prompt, outcome) ==
    IF outcome.raised \/ outcome.status # 200 THEN Missing
    ELSE IF outcome.payload.shape # "list_dict" THEN Missing
    ELSE LET text == GetText(outcome.payload, JStr(<<>>))
         IN  IF JTruthy(text) /\ text # JStr(prompt) THEN text ELSE Missing

HFReturn(content) == [kind |-> "return", content |-> content]

\* HuggingFaceLLM(model_name, hf_token)
HuggingFaceLLM_init(model_name, hf_token) ==
    /\ hf_pc = "idle"
    /\ hf_model_name' = model_name
    /\ hf_headers' = hf_token
    /\ hf_requests' = <<>>
    /\ hf_index' = 0
    /\ hf_result' = [kind |-> "none", content |-> Missing]
    /\ UNCHANGED <<hf_pc, team_vars, kingdom_vars, thread_vars, robot_vars>>

\* invoke(prompt), lines 29-47: up to the first request
HFInvoke ==
    /\ hf_pc = "idle"
    /\ hf_model_name # <<>>
    /\ hf_pc' = "primary"
    /\ hf_requests' = <<>>
    /\ hf_index' = 0
    /\ hf_result' = [kind |-> "running", content |-> Missing]
    /\ UNCHANGED <<hf_model_name, hf_headers, team_vars, kingdom_vars,
                   thread_vars, robot_vars>>

\* invoke, lines 56-86: what follows a response of the primary model
HFHandle(outcome) ==
    IF outcome.raised
    THEN /\ hf_pc' = "idle"
         /\ hf_result' = HFReturn(ErrorContent)
         /\ UNCHANGED hf_index
    ELSE IF outcome.status = 200
    THEN /\ hf_pc' = "idle"
         /\ hf_result' = HFReturn(Parse200(HFPrompt, outcome.payload))
         /\ UNCHANGED hf_index
    ELSE IF outcome.status = 503
    THEN /\ hf_pc' = "idle"
         /\ hf_result' =
              HFReturn(JStr(<<"Model is loading, please try again in a moment.">>))
         /\ UNCHANGED hf_index
    ELSE IF outcome.status = 429
    THEN /\ hf_pc' = "idle"
         /\ hf_result' =
              HFReturn(JStr(<<"Too many requests, please wait a moment and try again.">>))
         /\ UNCHANGED hf_index
    ELSE /\ hf_pc' = "alt"
         /\ hf_index' = 1
         /\ UNCHANGED hf_result

\* invoke, lines 49-54: the first request to the primary model
HFPrimary(outcome) ==
    /\ hf_pc = "primary"
    /\ hf_requests' = Append(hf_requests, [phase |-> "primary",
                                          model |-> hf_model_name])
    /\ IF ~outcome.raised /\ outcome.status = 403 /\ hf_headers
       THEN hf_pc' = "retry" /\ UNCHANGED <<hf_index, hf_result>>
       ELSE HFHandle(outcome)
    /\ UNCHANGED <<hf_model_name, hf_headers, team_vars, kingdom_vars,
                   thread_vars, robot_vars>>

\* invoke, line 54: the second request after a 403 with a token
HFRetry(outcome) ==
    /\ hf_pc = "retry"
    /\ hf_requests' = Append(hf_requests, [phase |-> "primary",
                                          model |-> hf_model_name])
    /\ HFHandle(outcome)
    /\ UNCHANGED <<hf_model_name, hf_headers, team_vars, kingdom_vars,
                   thread_vars, robot_vars>>

\* _try_alternative_model, line 96: an entry of free_models is passed over
HFAltSkip ==
    /\ hf_pc = "alt"
    /\ hf_index <= Len(free_models)
    /\ ~TriesModel(free_models[hf_index], hf_model_name)
    /\ hf_index' = hf_index + 1
    /\ UNCHANGED <<hf_model_name, hf_headers, hf_pc, hf_requests, hf_result,
                   team_vars, kingdom_vars, thread_vars, robot_vars>>

\* _try_alternative_model, lines 96-111: an entry of free_models is requested
HFAltRequest(outcome) ==
    /\ hf_pc = "alt"
    /\ hf_index <= Len(free_models)
    /\ TriesModel(free_models[hf_index], hf_model_name)
    /\ hf_requests' = Append(hf_requests, [phase |-> "alt",
                                          model |-> free_models[hf_index]])
    /\ LET text == AltText(HFPrompt, outcome)
       IN  IF text # Missing
           THEN /\ hf_pc' = "idle"
                /\ hf_result' =
                     HFReturn(JStr(<<"[Using ">> \o free_models[hf_index]
                                   \o <<"] ">> \o text.text))
                /\ UNCHANGED hf_index
           ELSE /\ hf_index' = hf_index + 1
                /\ UNCHANGED <<hf_pc, hf_result>>
    /\ UNCHANGED <<hf_model_name, hf_headers, team_vars, kingdom_vars,
                   thread_vars, robot_vars>>

\* _try_alternative_model, lines 116-118: every entry has been passed
HFAltEnd ==
    /\ hf_pc = "alt"
    /\ hf_index > Len(free_models)
    /\ hf_pc' = "idle"
    /\ hf_result' =
         HFReturn(JStr(<<"I'm having trouble accessing the AI models right now. Please try again later or check your internet connection.">>))
    /\ UNCHANGED <<hf_model_name, hf_headers, hf_requests, hf_index,
                   team_vars, kingdom_vars, thread_vars, robot_vars>>

HFNext ==
    \/ \E model_name \in ModelNames, hf_token \in BOOLEAN :
          HuggingFaceLLM_init(model_name, hf_token)
    \/ HFInvoke
    \/ \E outcome \in Outcomes : HFPrimary(outcome)
    \/ \E outcome \in Outcomes : HFRetry(outcome)
    \/ HFAltSkip
    \/ \E outcome \in Outcomes : HFAltRequest(outcome)
    \/ HFAltEnd

(***************************************************************************)
Init ==
    /\ team_memory_box = NoMemoryBox
    /\ team_state = InitialState(<<>>, <<>>)
    /\ team_pc = "idle"
    /\ team_trace = <<>>
    /\ team_result = Result("init", <<>>, "none", <<>>)
    /\ kingdom_memory_box = NoMemoryBox
    /\ kingdom_state = RobotKingdomState
    /\ kingdom_pc = "idle"
    /\ kingdom_step = 0
    /\ kingdom_trace = <<>>
    /\ kingdom_result = Result("init", <<>>, "none", <<>>)
    /\ threads = [t \in Threads |-> ThreadIdle]
    /\ robot_brain = NoBrain
    /\ robot_memory_box = NoMemoryBox
    /\ robot_result = Result("init", <<>>, "none", <<>>)
    /\ robot_generated = NotGenerated
    /\ robot_loads = NoLoads
    /\ hf_model_name = <<>>
    /\ hf_headers = FALSE
    /\ hf_pc = "idle"
    /\ hf_requests = <<>>
    /\ hf_index = 0
    /\ hf_result = [kind |-> "none", content |-> Missing]

SpecTeam == Init /\ [][TeamNext]_vars

SpecKingdom == Init /\ [][KingdomNext]_vars

SpecConcurrent == Init /\ [][ConcurrentNext]_vars

SpecRobot == Init /\ [][RobotNext]_vars

SpecHF == Init /\ [][HFNext]_vars

(***************************************************************************)
(* Properties                                                              *)
(***************************************************************************)
\* how many times node occurs in trace
Count(trace, node) == Cardinality({i \in 1..Len(trace) : trace[i] = node})

\* a question that is empty or all whitespace
IsBlank(question) == ~Truthy(Strip(question))

\* the BookRobotTeam run has left its last node
TeamRunDone ==
    \/ team_pc = "END"
    \/ team_result.op = "ask_question" /\ team_result.kind = "return"

\* the RobotKingdom call of ask_question has ended
KingdomAskEnded ==
    /\ kingdom_result.op = "ask_question"
    /\ kingdom_result.kind \in {"return", "raise"}

\* C1: in every BookRobotTeam run exactly one of writer_node and wisdom_node
\* executes: never both at any point of the run, and one of them by its end.
C1_ExactlyOneBranch ==
    /\ Count(team_trace, "writer") + Count(team_trace, "wisdom") <= 1
    /\ TeamRunDone =>
         Count(team_trace, "writer") + Count(team_trace, "wisdom") = 1

\* a run that took the wisdom branch has reached the end of the graph
C1_Witness ==
    /\ team_pc = "END"
    /\ Count(team_trace, "wisdom") = 1
    /\ Count(team_trace, "writer") = 0

\* C2: every RobotKingdom.ask_question call (here: with a question that
\* holds a word) executes exactly librarian, detective, one of writer and
\* wisdom, king, whether or not a book was read.
C2_RobotSequence ==
    (KingdomAskEnded /\ ~IsBlank(kingdom_result.arg)) =>
        kingdom_trace \in {<<"librarian", "detective", "writer", "king">>,
                           <<"librarian", "detective", "wisdom", "king">>}

\* C3: no RobotKingdom.ask_question run executes more than 5 robot steps.
C3_AtMostFiveSteps == Len(kingdom_trace) <= 5

\* C4: in BookRobotTeam the branch after the detective is wisdom if and only
\* if the lower-cased question contains "why", "analyze", "meaning",
\* "significance" or "interpret"; every other question goes to the writer.
C4_RouteByKeyword ==
    LET asksWhy ==
            \E word \in {<<"w","h","y">>, <<"a","n","a","l","y","z","e">>,
                         <<"m","e","a","n","i","n","g">>,
                         <<"s","i","g","n","i","f","i","c","a","n","c","e">>,
                         <<"i","n","t","e","r","p","r","e","t">>} :
                Contains(Lower(team_state.question), word)
        branched == team_pc \in {"writer", "wisdom", "king", "END"}
        wisdom == team_pc = "wisdom" \/ Count(team_trace, "wisdom") > 0
        writer == team_pc = "writer" \/ Count(team_trace, "writer") > 0
    IN  branched => /\ wisdom <=> asksWhy
                    /\ writer <=> ~asksWhy

\* an upper-case WHY has been routed to the wisdom node
C4_Witness ==
    /\ team_pc = "wisdom"
    /\ team_state.question = <<"W","H","Y">>

\* C5: in BookRobotTeam the wisdom node runs if and only if the detective
\* wrote the REASONING type, the writer node for every other type.
C5_BranchMatchesType ==
    team_pc \in {"writer", "wisdom"} =>
        (team_pc = "wisdom" <=> team_state.question_type = "REASONING_QUESTION")

\* the seven ordered keyword sets of the reference classifier
ReferenceSets ==
    << <<<<"w","h","o">>, <<"c","h","a","r","a","c","t","e","r">>, <<"p","e","r","s","o","n">>>>,
       <<<<"w","h","a","t">>,
         <<"d","e","s","c","r","i","b","e">>,
         <<"e","x","p","l","a","i","n">>,
         <<"a","b","o","u","t">>>>,
       <<<<"w","h","e","r","e">>,
         <<"p","l","a","c","e">>,
         <<"l","o","c","a","t","i","o","n">>,
         <<"s","e","t","t","i","n","g">>>>,
       <<<<"w","h","y">>,
         <<"b","e","c","a","u","s","e">>,
         <<"r","e","a","s","o","n">>,
         <<"p","u","r","p","o","s","e">>,
         <<"a","n","a","l","y","z","e">>,
         <<"m","e","a","n","i","n","g">>,
         <<"s","i","g","n","i","f","i","c","a","n","c","e">>,
         <<"i","n","t","e","r","p","r","e","t">>>>,
       <<<<"h","o","w">>,
         <<"m","e","t","h","o","d">>,
         <<"w","a","y">>,
         <<"p","r","o","c","e","s","s">>>>,
       <<<<"s","u","m","m","a","r","i","z","e">>,
         <<"s","u","m","m","a","r","y">>,
         <<"o","v","e","r","v","i","e","w">>>> >>

ReferenceTypes ==
    <<"CHARACTER_IDENTIFICATION", "DESCRIPTION_REQUEST", "LOCATION_INQUIRY",
      "REASONING_QUESTION", "PROCESS_QUESTION", "SUMMARY_REQUEST">>

\* first match wins over the ordered sets, case-insensitively; GENERAL when
\* no set matches
FirstMatchType(sets, question) ==
    LET hits == {i \in 1..Len(sets) : AnyIn(sets[i], Lower(question))}
    IN  IF hits = {} THEN "GENERAL_QUESTION"
        ELSE ReferenceTypes[CHOOSE i \in hits : \A j \in hits : i <= j]

\* C6 as stated: the question_type written by detective_node is the type the
\* reference classifier gives the question (set 2 with "about", set 4 with
\* "analyze", "meaning", "significance", "interpret").
C6_MatchesReference ==
    team_pc \in {"writer", "wisdom"} =>
        team_state.question_type = FirstMatchType(ReferenceSets, team_state.question)

\* the reference sets without "about" in set 2 and without "analyze",
\* "meaning", "significance", "interpret" in set 4
AmendedSets ==
    << <<<<"w","h","o">>, <<"c","h","a","r","a","c","t","e","r">>, <<"p","e","r","s","o","n">>>>,
       <<<<"w","h","a","t">>,
         <<"d","e","s","c","r","i","b","e">>,
         <<"e","x","p","l","a","i","n">>>>,
       <<<<"w","h","e","r","e">>,
         <<"p","l","a","c","e">>,
         <<"l","o","c","a","t","i","o","n">>,
         <<"s","e","t","t","i","n","g">>>>,
       <<<<"w","h","y">>,
         <<"b","e","c","a","u","s","e">>,
         <<"r","e","a","s","o","n">>,
         <<"p","u","r","p","o","s","e">>>>,
       <<<<"h","o","w">>,
         <<"m","e","t","h","o","d">>,
         <<"w","a","y">>,
         <<"p","r","o","c","e","s","s">>>>,
       <<<<"s","u","m","m","a","r","i","z","e">>,
         <<"s","u","m","m","a","r","y">>,
         <<"o","v","e","r","v","i","e","w">>>> >>

\* C6 as amended: the question_type written by detective_node is the
\* case-insensitive first match over the amended ordered sets, and GENERAL
\* for a question matching none of them.
C6_MatchesAmendedReference ==
    team_pc \in {"writer", "wisdom", "king", "END"} =>
        team_state.question_type = FirstMatchType(AmendedSets, team_state.question)

\* a question matching sets 1 and 4 was given the type of set 1
C6_Witness ==
    /\ team_pc = "writer"
    /\ team_state.question = <<"r","e","a","s","o","n"," ","W","h","o">>
    /\ team_state.question_type = "CHARACTER_IDENTIFICATION"

\* C7: ask_question with an empty or all-whitespace question fails before
\* any step executes.
C7_BlankQuestionRejected ==
    (kingdom_result.op = "ask_question" /\ IsBlank(kingdom_result.arg)) =>
        /\ kingdom_trace = <<>>
        /\ kingdom_result.kind # "return"

\* C8: a RobotKingdom.ask_question with a non-blank question before any book
\* was read still runs the detective, one branch and the king, and returns a
\* non-empty answer.
C8_AnswerWithoutBook ==
    (/\ KingdomAskEnded
     /\ ~IsBlank(kingdom_result.arg)
     /\ ~HasMemoryBox(kingdom_memory_box)) =>
        /\ kingdom_result.kind = "return"
        /\ Truthy(kingdom_result.value)
        /\ Count(kingdom_trace, "detective") = 1
        /\ Count(kingdom_trace, "writer") + Count(kingdom_trace, "wisdom") = 1
        /\ Count(kingdom_trace, "king") = 1

\* C9: a BookRobotTeam.ask_question with a non-empty question before any
\* process_book runs librarian, detective, one branch, king, with an empty
\* relevant_info, a non-empty writer or wisdom response and a non-empty
\* final answer.
C9_TeamAnswersWithoutBook ==
    (/\ TeamRunDone
     /\ Truthy(team_state.question)
     /\ ~HasMemoryBox(team_memory_box)) =>
        /\ team_trace \in {<<"librarian", "detective", "writer", "king">>,
                           <<"librarian", "detective", "wisdom", "king">>}
        /\ team_state.relevant_info = <<>>
        /\ Truthy(team_state.writer_response) \/ Truthy(team_state.wisdom_response)
        /\ Truthy(team_state.final_answer)
        /\ team_pc = "idle" => team_result.value = team_state.final_answer

\* a question no keyword matches was answered by the writer with no book read
C9_Witness ==
    /\ team_pc = "idle"
    /\ team_result.op = "ask_question"
    /\ team_result.kind = "return"
    /\ team_result.arg = <<"d","r","a","g","o","n">>
    /\ ~HasMemoryBox(team_memory_box)
    /\ Count(team_trace, "writer") = 1

\* C10: ingesting an empty document fails with an index-build error and
\* leaves no index behind.
C10_EmptyBookRejected ==
    (team_result.op = "process_book" /\ team_result.arg = EmptyBook) =>
        /\ team_result.kind = "raise"
        /\ ~HasMemoryBox(team_memory_box)

\* C11: re-ingestion replaces the index: once process_book(d) has returned
\* for a non-empty document d, the index that later asks query is the one
\* built from d's chunks, also when an earlier document had been ingested.
C11_ReingestReplacesIndex ==
    (/\ team_result.op = "process_book"
     /\ team_result.kind = "return"
     /\ BookTruthy(team_result.arg)) =>
        team_memory_box = FromTexts(SplitText(team_result.arg))

RECURSIVE run_loop(_, _, _)
\* RobotKingdom.ask_question, lines 334-345, run from state to its end with
\* no other call in between: how the call ends and the string it returns
run_loop(box, state, step) ==
    IF state.next_robot # "complete" /\ step < max_steps
          /\ state.next_robot \in Robots
    THEN IF RobotRaises(state.next_robot, state)
         THEN [kind |-> "raise", value |-> <<"IndexError">>]
         ELSE run_loop(IF state.next_robot = "librarian"
                       THEN LibrarianRobot_memory_box(box, state)
                       ELSE box,
                       RobotWork(state.next_robot, box, state),
                       step + 1)
    ELSE [kind |-> "return", value |-> state.final_answer]

\* ask_question(question) on a RobotKingdomState as the constructor leaves
\* it, with the memory box box
FreshAnswer(box, question) ==
    run_loop(box, [RobotKingdomState EXCEPT !.current_question = question], 0)

\* C12: every RobotKingdom.ask_question ends as it would on a fresh shared
\* state: the string it returns is determined by its question and the
\* current index alone, whatever asks came before it.
C12_AnswerIgnoresHistory ==
    KingdomAskEnded =>
        [kind |-> kingdom_result.kind, value |-> kingdom_result.value]
            = FreshAnswer(kingdom_memory_box, kingdom_result.arg)

\* C13: at every point of a RobotKingdom.ask_question run, also a run that
\* follows an earlier completed run, final_answer is non-empty exactly when
\* the current run has reached next_robot = "complete".
C13_FinalAnswerIffComplete ==
    kingdom_pc \in {"loop", "break"} =>
        (Truthy(kingdom_state.final_answer)
            <=> kingdom_state.next_robot = "complete")

\* the elements of a sequence
Range(seq) == {seq[i] : i \in 1..Len(seq)}

\* the king has run in the current BookRobotTeam run
KingRan == Count(team_trace, "king") = 1

\* C14: in every BookRobotTeam run king_node executes exactly once, directly
\* after the selected branch node (writer or wisdom) has completed, and
\* final_answer is written by the king step and by no other step.
C14_KingOnceAfterBranch ==
    /\ Count(team_trace, "king") <= 1
    /\ TeamRunDone => KingRan
    /\ team_pc = "king" =>
         /\ Len(team_trace) > 0
         /\ team_trace[Len(team_trace)] \in {"writer", "wisdom"}
    /\ \A i \in 1..Len(team_trace) :
         team_trace[i] = "king" =>
            /\ i > 1
            /\ team_trace[i - 1] \in {"writer", "wisdom"}
            /\ i = Len(team_trace)
    /\ Truthy(team_state.final_answer) <=> KingRan

\* a run through the writer branch has run its king
C14_Witness ==
    /\ team_trace = <<"librarian", "detective", "writer", "king">>
    /\ Truthy(team_state.final_answer)

\* C16 (as stated): the final answer begins with the literal restated
\* question: the question text is its first segment, before anything else.
C16_BeginsWithQuestion ==
    (KingRan /\ Truthy(team_state.question)) =>
        Take(team_state.final_answer, Len(team_state.question))
            = team_state.question

\* C16 (amended): the final answer begins with king_node's fixed header,
\* the literal question follows it at once, and the team reports come only
\* after the question.
C16_HeaderThenQuestion ==
    KingRan =>
        LET a == team_state.final_answer
            q == team_state.question
        IN  /\ Len(a) >= Len(q) + 2
            /\ a[1] = "**ROYAL TEAM RESPONSE**\n\n**Your Question**: "
            /\ SubSeq(a, 2, Len(q) + 1) = q
            /\ a[Len(q) + 2] = "\n\n**Team Analysis Summary**:\n"
            /\ \A i \in 1..(Len(q) + 1) :
                 a[i] \notin {"**Librarian**: ", "**Detective**: ",
                              "**Writer**: ", "**Wisdom**: "}

\* the answer to a non-empty question has been assembled
C16_Witness ==
    /\ KingRan
    /\ team_state.question = <<"W","h","o">>
    /\ Truthy(team_state.final_answer)

\* the same for KingRobot.work: header, then the question, then the reports
C16_KingdomHeaderThenQuestion ==
    Truthy(kingdom_state.final_answer) =>
        \E q \in KingdomQuestions :
            LET a == kingdom_state.final_answer
            IN  /\ Len(a) >= Len(q) + 2
                /\ a[1] = "**ROYAL ROBOT TEAM RESPONSE**\n\n**Question**: "
                /\ SubSeq(a, 2, Len(q) + 1) = q
                /\ a[Len(q) + 2] = "\n\n**Team Analysis:**\n"

\* C17: the BookRobotTeam final answer never holds the report of the branch
\* that was not taken: after the writer ran it has a Writer entry and no
\* Wisdom entry, after the wisdom ran a Wisdom entry and no Writer entry; the
\* untaken branch's response is empty and the king still assembles an answer.
C17_NoUntakenBranchReport ==
    KingRan =>
        LET entries == Range(team_state.final_answer)
        IN  /\ Truthy(team_state.final_answer)
            /\ Count(team_trace, "writer") = 1 =>
                 /\ "**Writer**: " \in entries
                 /\ "**Wisdom**: " \notin entries
                 /\ team_state.wisdom_response = <<>>
            /\ Count(team_trace, "wisdom") = 1 =>
                 /\ "**Wisdom**: " \in entries
                 /\ "**Writer**: " \notin entries
                 /\ team_state.writer_response = <<>>

\* the king has assembled the answer of a run through the wisdom branch
C17_Witness ==
    /\ KingRan
    /\ Count(team_trace, "wisdom") = 1
    /\ "**Wisdom**: " \in Range(team_state.final_answer)

\* C18: BookRobotTeam's step_count is 0 when a run starts, grows by exactly
\* one with every step and never shrinks within a run, so that it equals the
\* number of steps executed so far; and no edge of the graph depends on it.
C18_StepCountCountsSteps ==
    /\ team_state.step_count = Len(team_trace)
    /\ \A node \in {"librarian", "detective", "writer", "wisdom", "king"} :
         \A n \in 0..(team_state.step_count + 1) :
            GraphNext(node, [team_state EXCEPT !.step_count = n])
                = GraphNext(node, team_state)

\* a run has executed its four steps
C18_Witness ==
    /\ team_pc = "END"
    /\ team_state.step_count = 4
    /\ Len(team_trace) = 4

\* the robots named in the report headings of an answer, in the order of
\* the headings
ReportOrder(answer) ==
    SelectSeq(answer, LAMBDA a : a \in {"Librarian", "Detective", "Writer",
                                        "Wisdom", "King"})

\* robot_responses with the same entries inserted in the order f
Reinserted(state, f) ==
    [state EXCEPT !.robot_responses =
        [i \in 1..Len(state.robot_responses) |-> state.robot_responses[f[i]]]]

ConcurrentBoxes ==
    {NoMemoryBox} \union {FromTexts(SplitText(book)) : book \in ConcurrentBooks}

\* C19: ask_question calls with different questions interleaved on one
\* RobotKingdom do not share or mutate each other's run state: under every
\* interleaving each call ends as it does when it runs alone, with the answer
\* that its own question gets on an index of the orchestrator.
C19_InterleavedAsksIsolated ==
    \A t \in Threads :
        (threads[t].op = "ask_question"
            /\ threads[t].kind \in {"return", "raise"}) =>
            \E box \in ConcurrentBoxes :
                [kind |-> threads[t].kind, value |-> threads[t].value]
                    = FreshAnswer(box, threads[t].arg)

\* C20: index builds are serialized: two threads are never both past the
\* check "no index yet" (line 62) and building, and no thread is at the
\* retrieval of its ask_question while another thread's build is in flight.
C20_BuildsSerialized ==
    \A t \in Threads : \A u \in Threads \ {t} :
        threads[t].pc = "build" =>
            /\ threads[u].pc # "build"
            /\ ~(/\ threads[u].pc = "search"
                 /\ threads[u].op = "ask_question"
                 /\ HasMemoryBox(kingdom_memory_box)
                 /\ Truthy(kingdom_state.current_question))

\* C21: ask_question is read-only with respect to the index: whatever
\* read_book and ask_question calls came before, no step of a
\* RobotKingdom.ask_question call (its reset, its loop iterations, its
\* return) builds, replaces or modifies the librarian's memory_box.
C21_AskLeavesIndex ==
    [][(kingdom_pc # "idle" \/ kingdom_pc' # "idle") =>
          kingdom_memory_box' = kingdom_memory_box]_vars

\* the librarian has run inside an ask_question call with a book in the
\* state and an index in place
C21_Witness ==
    /\ kingdom_pc = "loop"
    /\ Count(kingdom_trace, "librarian") = 1
    /\ BookTruthy(kingdom_state.book_content)
    /\ HasMemoryBox(kingdom_memory_box)

\* the same for BookRobotTeam.ask_question: no node of the graph changes
\* BookRobotTeam.memory_box
C21_TeamAskLeavesIndex ==
    [][(team_pc # "idle" \/ team_pc' # "idle") =>
          team_memory_box' = team_memory_box]_vars

RECURSIVE run_robots(_, _, _)
\* RobotKingdom.ask_question, lines 334-342, run from state to its end with
\* no other call in between: the robots whose work the loop calls, in order
run_robots(box, state, step) ==
    IF state.next_robot # "complete" /\ step < max_steps
          /\ state.next_robot \in Robots
    THEN <<state.next_robot>>
         \o (IF RobotRaises(state.next_robot, state)
             THEN <<>>
             ELSE run_robots(IF state.next_robot = "librarian"
                             THEN LibrarianRobot_memory_box(box, state)
                             ELSE box,
                             RobotWork(state.next_robot, box, state),
                             step + 1))
    ELSE <<>>

\* RobotKingdom.ask_question, lines 325-328: the reset, applied to state
AskReset(state, question) ==
    [state EXCEPT !.current_question = question,
                  !.robot_responses = <<>>,
                  !.messages = <<>>,
                  !.next_robot = "librarian"]

\* BookRobotTeam: the node function of each node of the graph
NodeWork(node, box, state) ==
    CASE node = "librarian" -> librarian_node(box, state)
      [] node = "detective" -> detective_node(state)
      [] node = "writer" -> writer_node(state)
      [] node = "wisdom" -> wisdom_node(state)
      [] node = "king" -> king_node(state)

RECURSIVE invoke(_, _, _)
\* self.workflow.invoke(initial_state): the graph run from node to END, the
\* state it returns
invoke(box, node, state) ==
    IF node = "END" THEN state
    ELSE LET after == NodeWork(node, box, state)
         IN  invoke(IF node = "librarian"
                    THEN librarian_memory_box(box, state) ELSE box,
                    GraphNext(node, after), after)

\* C22: idempotence of RobotKingdom.ask_question: once ask_question(q) has
\* ended, the same call made again straight away, on the unchanged index,
\* runs the same robots (so the same question type and branch) and ends the
\* same way with the same final answer.
C22_AskTwiceSameAnswer ==
    KingdomAskEnded =>
        LET again == AskReset(kingdom_state, kingdom_result.arg)
        IN  /\ run_loop(kingdom_memory_box, again, 0)
                 = [kind |-> kingdom_result.kind,
                    value |-> kingdom_result.value]
            /\ run_robots(kingdom_memory_box, again, 0) = kingdom_trace

\* an ask_question call on an index has returned an answer that the king
\* assembled, through the wisdom robot
C22_Witness ==
    /\ KingdomAskEnded
    /\ kingdom_result.kind = "return"
    /\ kingdom_result.arg = <<"W","H","Y">>
    /\ Truthy(kingdom_result.value)
    /\ Count(kingdom_trace, "wisdom") = 1

\* the same for BookRobotTeam.ask_question: the call made again returns the
\* same final answer, with the same question type and the same branch
C22_TeamAskTwiceSameAnswer ==
    (team_result.op = "ask_question" /\ team_result.kind = "return") =>
        LET again == invoke(team_memory_box, GraphStart,
                            InitialState(team_result.arg, <<>>))
        IN  /\ again.final_answer = team_result.value
            /\ again.question_type = team_state.question_type
            /\ Truthy(again.writer_response)
                 <=> Count(team_trace, "writer") = 1
            /\ Truthy(again.wisdom_response)
                 <=> Count(team_trace, "wisdom") = 1

\* C23: when RobotKingdom's run loop stops without having reached
\* next_robot = "complete" (step guard exhausted or unknown robot name),
\* ask_question fails loudly: it never returns a value to its caller from
\* such a run.
C23_IncompleteRunFailsLoudly ==
    (KingdomAskEnded /\ kingdom_result.kind = "return") =>
        kingdom_state.next_robot = "complete"

\* the response that robot_name has set in state, "" when it has set none
ResponseOf(state, robot_name) ==
    IF \E i \in 1..Len(state.robot_responses) :
            state.robot_responses[i][1] = robot_name
    THEN state.robot_responses[
             CHOOSE i \in 1..Len(state.robot_responses) :
                 state.robot_responses[i][1] = robot_name][2]
    ELSE <<>>

\* a RobotKingdomState in which the detective has handed question over to
\* to_robot with an empty relevant_text
HandedOverEmpty(question, to_robot) ==
    add_message([RobotKingdomState EXCEPT !.current_question = question],
        RobotMessage("detective", to_robot, <<"Please handle this question.">>,
            "task",
            [analysis |-> DetectiveAnalysis(question).analysis,
             relevant_text |-> <<>>]))

\* C25: for every question type the drafting and the analysis step complete
\* on an empty context text and write a non-empty partial answer:
\* BookRobotTeam's writer_node and wisdom_node in a run whose relevant_info
\* is "", and WriterRobot.work and WisdomRobot.work on a hand-over whose
\* relevant_text is "".
C25_EmptyContextAnswered ==
    /\ (team_state.relevant_info = <<>>
           /\ Count(team_trace, "writer") = 1) =>
          Truthy(team_state.writer_response)
    /\ (team_state.relevant_info = <<>>
           /\ Count(team_trace, "wisdom") = 1) =>
          Truthy(team_state.wisdom_response)
    /\ \A question \in KingdomQuestions :
          /\ Truthy(ResponseOf(
                 WriterRobot_work(HandedOverEmpty(question, "writer")),
                 "writer"))
          /\ WriterRobot_work(HandedOverEmpty(question, "writer")).next_robot
                = "king"
          /\ Truthy(ResponseOf(
                 WisdomRobot_work(HandedOverEmpty(question, "wisdom")),
                 "wisdom"))
          /\ WisdomRobot_work(HandedOverEmpty(question, "wisdom")).next_robot
                = "king"

\* the writer has answered a location question on an empty context
C25_Witness ==
    /\ Count(team_trace, "writer") = 1
    /\ team_state.question_type = "LOCATION_INQUIRY"
    /\ team_state.relevant_info = <<>>
    /\ Truthy(team_state.writer_response)

\* BookRobotTeam.ask_question(SampleQuestion) has returned, with the index
\* built from book
ScenarioAnswered(book) ==
    /\ team_result.op = "ask_question"
    /\ team_result.kind = "return"
    /\ team_result.arg = SampleQuestion
    /\ team_memory_box = FromTexts(SplitText(book))

\* the writer's character report naming name
CharacterReport(name) ==
    <<"**Character Analysis**: Based on the book, the main character appears to be **">>
    \o name
    \o <<"**. The narrative centers around their experiences and development throughout the story.">>

\* C26 (as stated): after ingesting a document about Sir Lancelot, his
\* courage and a dragon, ask("Who is the main character?") on BookRobotTeam
\* yields the CHARACTER type, the writer branch, and a final answer that
\* contains "Lancelot" and the literal question text.
C26_AnswerNamesLancelot ==
    \A book \in {SampleBook, LancelotBook} :
        ScenarioAnswered(book) =>
            /\ team_state.question_type = "CHARACTER_IDENTIFICATION"
            /\ Count(team_trace, "writer") = 1
            /\ Contains(team_result.value, <<"L","a","n","c","e","l","o","t">>)
            /\ Contains(team_result.value, SampleQuestion)

\* C26 (amended): the scenario yields the CHARACTER type, the writer branch,
\* and a final answer that contains the literal question text and the
\* writer's report naming the first capitalized alphabetic token longer than
\* 2 characters of the retrieved text: "Once" for the sample book, "Sir" for
\* a book that starts with "Sir Lancelot"; "Lancelot" is not in the answer.
C26_AnswerNamesFirstToken ==
    /\ ScenarioAnswered(SampleBook) =>
          /\ team_state.writer_response
               = CharacterReport(<<"O","n","c","e">>)
          /\ Contains(team_result.value, CharacterReport(<<"O","n","c","e">>))
    /\ ScenarioAnswered(LancelotBook) =>
          /\ team_state.writer_response = CharacterReport(<<"S","i","r">>)
          /\ Contains(team_result.value, CharacterReport(<<"S","i","r">>))
    /\ \A book \in {SampleBook, LancelotBook} :
          ScenarioAnswered(book) =>
             /\ team_state.question_type = "CHARACTER_IDENTIFICATION"
             /\ Count(team_trace, "writer") = 1
             /\ Count(team_trace, "wisdom") = 0
             /\ Contains(team_result.value, SampleQuestion)
             /\ ~Contains(team_result.value,
                          <<"L","a","n","c","e","l","o","t">>)

\* the sample question has been answered on the sample book
C26_Witness ==
    /\ ScenarioAnswered(SampleBook)
    /\ Truthy(team_result.value)

\* w is capitalized: an upper-case letter followed by no upper-case letter
Capitalized(w) ==
    /\ Len(w) > 0
    /\ w[1] \in DOMAIN UpperToLower
    /\ \A i \in 2..Len(w) : w[i] \notin DOMAIN UpperToLower

\* w is purely alphabetic: letters only, and at least one
Alphabetic(w) ==
    /\ Len(w) > 0
    /\ \A i \in 1..Len(w) :
         w[i] \in (DOMAIN UpperToLower) \cup (DOMAIN LowerToUpper)

\* the positions in tokens of the words that qualify as a name
NamePositions(tokens) ==
    {i \in 1..Len(tokens) :
        Capitalized(tokens[i]) /\ Alphabetic(tokens[i]) /\ Len(tokens[i]) > 2}

\* the first whitespace-delimited token of text that qualifies, <<>> if none
FirstName(text) ==
    LET tokens == SplitWhitespace(text)
        at == NamePositions(tokens)
    IN  IF at = {} THEN <<>>
        ELSE tokens[CHOOSE i \in at : \A j \in at : i <= j]

\* what the drafting step of BookRobotTeam is to write for text
ExpectedCharacterResponse(text) ==
    IF FirstName(text) # <<>>
    THEN CharacterReport(FirstName(text))
    ELSE <<"**Character Analysis**: The text discusses various characters, with their roles and relationships being central to the narrative.">>

\* what the drafting step of RobotKingdom is to write for text
ExpectedKingdomCharacterResponse(text) ==
    IF FirstName(text) # <<>>
    THEN <<"Based on the book, the main character appears to be **">>
         \o FirstName(text)
         \o <<"**. The text mentions them in the context of the story events.">>
    ELSE <<"The text discusses various characters, though the specific main character isn't immediately clear from this section.">>

\* words a context text is made of: qualifying names, words that fail one
\* of the three tests, and a name with punctuation attached
CharacterTokens ==
    <<<<"t","h","e">>, <<"S","i","r">>, <<"A","l">>,
      <<"L","a","n","c","e","l","o","t",".">>, <<"A","R","T","H","U","R">>,
      <<"M","c","K","a","y">>, <<"A","r","t","h","u","r">>>>

\* the context texts of at most two of these words, and the empty text
CharacterTexts ==
    {<<>>}
    \cup {Phrase(CharacterTokens, ws) :
            ws \in UNION {[1..m -> 1..Len(CharacterTokens)] : m \in 1..2}}

\* C27: for a CHARACTER question the drafting step reports as main character
\* the first whitespace-delimited token of the context text that is
\* capitalized, purely alphabetic and longer than 2 characters, and writes
\* the generic sentence exactly when the text has no such token: in
\* BookRobotTeam._write_character_response (on the texts of CharacterTexts
\* and on the relevant_info of every run) and in
\* WriterRobot._write_character_response.
C27_FirstCapitalizedToken ==
    /\ \A text \in CharacterTexts :
          /\ _write_character_response(text)
               = ExpectedCharacterResponse(text)
          /\ WriterRobot_write_character_response(<<>>, text)
               = ExpectedKingdomCharacterResponse(text)
    /\ (Count(team_trace, "writer") = 1
           /\ team_state.question_type = "CHARACTER_IDENTIFICATION") =>
          team_state.writer_response
             = ExpectedCharacterResponse(team_state.relevant_info)

\* the writer has named the main character of a retrieved text whose first
\* word does not qualify
C27_Witness ==
    /\ Count(team_trace, "writer") = 1
    /\ team_state.question_type = "CHARACTER_IDENTIFICATION"
    /\ Take(team_state.relevant_info, 3) = <<"t","h","e">>
    /\ team_state.writer_response = CharacterReport(<<"A","r","t","h","u","r">>)

\* C28: every call of RobotKingdom.ask_question terminates, for any question
\* and any index state: while the call runs it is at the loop test or at the
\* return, the loop has used at most max_steps iterations, and each
\* iteration has run one robot and used one step of that budget; once the
\* budget is used up the loop test fails and the call returns.
C28_AskTerminates ==
    kingdom_pc # "idle" =>
        /\ kingdom_pc \in {"loop", "break"}
        /\ kingdom_step <= max_steps
        /\ Len(kingdom_trace) = kingdom_step
        /\ kingdom_step = max_steps => ~LoopGuard

\* a run has used up its step budget without reaching the king
C28_Witness ==
    /\ kingdom_pc = "loop"
    /\ kingdom_step = max_steps
    /\ kingdom_state.next_robot = "librarian"

\* the same for BookRobotTeam.ask_question: the graph has no cycle, so a run
\* executes no node twice and at most four nodes, then returns
C28_TeamAskTerminates ==
    team_pc # "idle" =>
        /\ team_pc \in {"librarian", "detective", "writer", "wisdom",
                        "king", "END"}
        /\ Len(team_trace) <= 4
        /\ \A i, j \in 1..Len(team_trace) :
              i # j => team_trace[i] # team_trace[j]
        /\ team_pc \notin Range(team_trace)

\* the fields of the shared state each node assigns
OwnFields(node) ==
    CASE node = "librarian" ->
             {"book_chunks", "relevant_info", "librarian_response", "step_count"}
      [] node = "detective" ->
             {"question_type", "analysis", "detective_response", "step_count"}
      [] node = "writer" -> {"writer_response", "step_count"}
      [] node = "wisdom" -> {"wisdom_response", "step_count"}
      [] node = "king" -> {"final_answer", "step_count"}
      [] OTHER -> {}

\* C29: within a BookRobotTeam run no step changes the question, and a node
\* changes no field of the state but its own; the detective changes nothing
\* except question_type, analysis, detective_response and step_count, so it
\* leaves relevant_info and librarian_response as the librarian wrote them.
C29_NodesWriteOwnFields ==
    [][team_pc # "idle" =>
          /\ team_state'.question = team_state.question
          /\ \A f \in (DOMAIN team_state) \ OwnFields(team_pc) :
                team_state'[f] = team_state[f]
          /\ team_pc = "detective" =>
                /\ team_state'.relevant_info = team_state.relevant_info
                /\ team_state'.librarian_response = team_state.librarian_response]_vars

\* the detective has just run on a question with an upper-case letter, after
\* the librarian retrieved text for it
C29_Witness ==
    /\ Len(team_trace) = 2
    /\ team_trace[2] = "detective"
    /\ Truthy(team_state.relevant_info)
    /\ Lower(team_state.question) # team_state.question
    /\ Truthy(team_state.detective_response)

\* the number of chunks in the index that asks query (none before a build)
IndexCount(box) == IF HasMemoryBox(box) THEN Len(box.chunks) ELSE 0

\* C30: ingest returns the count of chunks of the index: when
\* BookRobotTeam.process_book has returned, the number in its report is the
\* number of chunks in the index that later asks will query.
C30_IngestReportsIndexCount ==
    (team_result.op = "process_book" /\ team_result.kind = "return") =>
        team_result.value =
            <<"Robot Team has read your book! Memorized ",
              ToString(IndexCount(team_memory_box)), " sections.">>

\* the same for RobotKingdom.read_book, whose report counts the chunks the
\* kingdom's state keeps from the build
C30_KingdomReportsIndexCount ==
    (kingdom_result.op = "read_book" /\ kingdom_result.kind = "return") =>
        kingdom_result.value =
            <<"The Robot Kingdom has read your book! ",
              ToString(IndexCount(kingdom_memory_box)), " sections memorized.">>

\* the answers made from fixed templates alone: what SimpleLocalLLM answers
\* to the prompt, and the fixed sentence of LocalLLM
FallbackOutputs(prompt) ==
    {SimpleLocalLLM_invoke(prompt),
     <<"I'm not sure how to answer that question.">>}

\* the generator raised inside LocalLLM.invoke while a question was answered
GeneratorFailed ==
    /\ robot_result.op = "answer_question"
    /\ robot_generated.kind = "raise"

\* C24: when the generator fails while answering, BookRobot.answer_question
\* does not propagate the failure, and its answer is the pure-template
\* fallback output, not text describing the error.
C24_GeneratorFailureFallsBack ==
    GeneratorFailed =>
        /\ robot_result.kind = "return"
        /\ robot_result.value \in
               FallbackOutputs(Prompt(robot_memory_box, robot_result.arg))
        /\ ~Contains(robot_result.value, robot_generated.text)

\* the part of C24 that the code keeps: the failure is not propagated, the
\* call returns a string
C24_GeneratorFailureNotPropagated ==
    GeneratorFailed =>
        /\ robot_result.kind = "return"
        /\ robot_result.value =
               <<"Error generating response: ">> \o robot_generated.text

\* C31: in RobotKingdom with an index built, every question whose lower-cased
\* text contains "why" is routed by the detective to the wisdom robot: the
\* robot that runs after the detective is wisdom.
C31_WhyRoutedToWisdom ==
    (/\ HasMemoryBox(kingdom_memory_box)
     /\ Contains(Lower(kingdom_state.current_question), <<"w","h","y">>)
     /\ Len(kingdom_trace) >= 3
     /\ kingdom_trace[2] = "detective") =>
        kingdom_trace[3] = "wisdom"

\* what the code does: "why" reaches the wisdom robot exactly when no
\* keyword of the two earlier tests (who, character, person; what, describe,
\* explain) occurs in the question as well
C31_WhyRoutedUnlessEarlierKeyword ==
    (/\ HasMemoryBox(kingdom_memory_box)
     /\ Contains(Lower(kingdom_state.current_question), <<"w","h","y">>)
     /\ Len(kingdom_trace) >= 3
     /\ kingdom_trace[2] = "detective") =>
        (kingdom_trace[3] = "wisdom" <=>
            /\ ~AnyIn(KingdomCharacterKeywords,
                      Lower(kingdom_state.current_question))
            /\ ~AnyIn(KingdomDescriptionKeywords,
                      Lower(kingdom_state.current_question)))

\* C32: BookRobot.answer_question called before any read_book treats the
\* missing index as an empty retrieval result and returns an answer: the call
\* does not fail, and what it returns is the brain's answer to the prompt
\* with an empty context.
C32_AnswerBeforeReadBook ==
    (/\ robot_result.op = "answer_question"
     /\ ~HasMemoryBox(robot_memory_box)) =>
        /\ robot_result.kind = "return"
        /\ robot_brain.class = "SimpleLocalLLM" =>
              robot_result.value =
                  SimpleLocalLLM_invoke(Prompt(NoMemoryBox, robot_result.arg))

\* C33: when an index has been built and the question holds a non-whitespace
\* character, RobotKingdom.ask_question executes exactly 4 robot steps
\* (librarian, detective, writer or wisdom, king), ends with next_robot =
\* "complete", and returns the final answer the king wrote in that run: the
\* answer a fresh kingdom with the same index gives to the question.
C33_FourStepsWithIndex ==
    (/\ KingdomAskEnded
     /\ HasMemoryBox(kingdom_memory_box)
     /\ ~IsBlank(kingdom_result.arg)) =>
        /\ kingdom_result.kind = "return"
        /\ kingdom_step = 4
        /\ Len(kingdom_trace) = 4
        /\ kingdom_trace[1] = "librarian"
        /\ kingdom_trace[2] = "detective"
        /\ kingdom_trace[3] \in {"writer", "wisdom"}
        /\ kingdom_trace[4] = "king"
        /\ kingdom_state.next_robot = "complete"
        /\ kingdom_result.value = kingdom_state.final_answer
        /\ kingdom_result.value =
               FreshAnswer(kingdom_memory_box, kingdom_result.arg).value
        /\ Truthy(kingdom_result.value)

\* a run over a built index has ended after the wisdom robot took the question
C33_Witness ==
    /\ KingdomAskEnded
    /\ HasMemoryBox(kingdom_memory_box)
    /\ ~IsBlank(kingdom_result.arg)
    /\ Len(kingdom_trace) = 4
    /\ kingdom_trace[3] = "wisdom"

\* C34: in RobotKingdom state.next_robot is at all times one of librarian,
\* detective, writer, wisdom, king or complete, so the run loop's branch for
\* an unknown robot (else: break) is never taken.
C34_NextRobotKnown ==
    /\ kingdom_state.next_robot \in Robots \cup {"complete"}
    /\ kingdom_pc # "break"

\* the detective has just chosen the wisdom robot in a running ask
C34_Witness ==
    /\ kingdom_pc = "loop"
    /\ kingdom_trace = <<"librarian", "detective">>
    /\ kingdom_state.next_robot = "wisdom"

\* C35: RobotKingdom.read_book changes only the index and the book fields:
\* whatever read_book and ask_question calls came before, a read_book call
\* (the only step from idle to idle) leaves robot_responses, messages and
\* final_answer as they were.
C35_ReadBookFrame ==
    [][(kingdom_pc = "idle" /\ kingdom_pc' = "idle") =>
          /\ kingdom_state'.robot_responses = kingdom_state.robot_responses
          /\ kingdom_state'.messages = kingdom_state.messages
          /\ kingdom_state'.final_answer = kingdom_state.final_answer]_vars

\* the part of C35 that the code keeps: read_book leaves final_answer alone,
\* and leaves the reports and messages alone while no question has been
\* asked or no index exists after the call
C35_ReadBookFrameBeforeAsk ==
    [][(kingdom_pc = "idle" /\ kingdom_pc' = "idle") =>
          /\ kingdom_state'.final_answer = kingdom_state.final_answer
          /\ (~Truthy(kingdom_state.current_question)
                 \/ ~HasMemoryBox(kingdom_memory_box')) =>
                /\ kingdom_state'.robot_responses = kingdom_state.robot_responses
                /\ kingdom_state'.messages = kingdom_state.messages]_vars

\* the detective's keyword lists in the order it tests them, and the rank of
\* a question type in that order (7 for GENERAL_QUESTION)
KeywordLists ==
    <<CharacterKeywords, DescriptionKeywords, LocationKeywords,
      ReasoningKeywords, ProcessKeywords, SummaryKeywords>>

TypeRank(question_type) ==
    IF \E i \in 1..Len(ReferenceTypes) : ReferenceTypes[i] = question_type
    THEN CHOOSE i \in 1..Len(ReferenceTypes) : ReferenceTypes[i] = question_type
    ELSE Len(ReferenceTypes) + 1

\* the wisdom node is the branch of the current BookRobotTeam run
WisdomBranch == team_pc = "wisdom" \/ Count(team_trace, "wisdom") > 0

\* C36: keyword matching in detective_node and _route_after_detective is
\* substring containment on the lower-cased question, not whole-word
\* matching: a keyword inside a longer word of the question counts as a match
\* of its list, so the type is that list's or an earlier one's, and a route
\* keyword inside a longer word sends the run to the wisdom node; "who" in
\* "whole" gives CHARACTER, "how" in "show" gives PROCESS when no earlier list
\* matches, "meaning" in "meaningless" gives the wisdom branch.
C36_SubstringMatching ==
    team_pc \in {"writer", "wisdom", "king", "END"} =>
        LET q == Lower(team_state.question)
            words == SplitWhitespace(q)
            inside(keyword) ==
                \E i \in 1..Len(words) :
                    Contains(words[i], keyword) /\ words[i] # keyword
        IN  /\ \A l \in 1..Len(KeywordLists) :
                  \A j \in 1..Len(KeywordLists[l]) :
                      inside(KeywordLists[l][j]) =>
                          TypeRank(team_state.question_type) <= l
            /\ \A j \in 1..Len(RouteKeywords) :
                  inside(RouteKeywords[j]) => WisdomBranch
            /\ q = <<"w","h","o","l","e">> =>
                  team_state.question_type = "CHARACTER_IDENTIFICATION"
            /\ q = <<"s","h","o","w">> =>
                  team_state.question_type = "PROCESS_QUESTION"
            /\ q = <<"m","e","a","n","i","n","g","l","e","s","s">> =>
                  WisdomBranch

\* the question "show", which has no keyword as a whole word, has been typed
\* by the detective
C36_Witness ==
    /\ team_pc = "writer"
    /\ team_state.question = <<"s","h","o","w">>
    /\ team_state.question_type = "PROCESS_QUESTION"

\* a construction of a BookRobot has just ended
Constructed == robot_result.op = "__init__"

\* the brain the fallback order gives: the primary model if it loads, else
\* the backup model, else SimpleLocalLLM
FallbackBrain(primary, backup) ==
    IF primary THEN [class |-> "LocalLLM", model |-> PrimaryModel]
    ELSE IF backup THEN [class |-> "LocalLLM", model |-> BackupModel]
    ELSE [class |-> "SimpleLocalLLM", model |-> ""]

\* C37 as stated: BookRobot construction always ends with a usable brain and
\* never propagates a model-loading failure: the brain is LocalLLM with the
\* primary model if it loads, else LocalLLM with the backup model, else
\* SimpleLocalLLM.
C37_ConstructionFallsBack ==
    Constructed =>
        /\ robot_result.kind = "return"
        /\ robot_brain = FallbackBrain(robot_loads.primary, robot_loads.backup)

\* C37 as amended: a construction whose embedding model loads returns, with
\* the brain of the fallback order when use_local_model is set and with
\* SimpleLocalLLM when it is not; a construction whose embedding model does
\* not load raises, whatever the generator models do.
C37_ConstructionFallsBackAfterEmbeddings ==
    Constructed =>
        /\ robot_result.kind = "return" <=> robot_loads.embeddings
        /\ (robot_loads.embeddings /\ robot_loads.use_local_model) =>
              robot_brain =
                  FallbackBrain(robot_loads.primary, robot_loads.backup)
        /\ (robot_loads.embeddings /\ ~robot_loads.use_local_model) =>
              robot_brain = [class |-> "SimpleLocalLLM", model |-> ""]

\* the primary model failed to load and the robot got the backup model
C37_Witness ==
    /\ Constructed
    /\ robot_result.kind = "return"
    /\ robot_loads.use_local_model
    /\ ~robot_loads.primary
    /\ robot_loads.backup
    /\ robot_brain = [class |-> "LocalLLM", model |-> BackupModel]

\* the requests _try_alternative_model has sent in the current (or last) invoke
AltRequests == SelectSeq(hf_requests, LAMBDA r : r.phase = "alt")

\* C38: HuggingFaceLLM._try_alternative_model never re-requests the model
\* that just failed: for every configured model_name, no alternative request
\* goes to a model equal to self.model_name.
C38_NoRetryOfFailedModel ==
    \A i \in 1..Len(AltRequests) : AltRequests[i].model # hf_model_name

\* what the code does: the configured model is requested again exactly when
\* its name contains "flan-t5-base" and it is an entry of free_models that
\* the loop has reached
C38_NoRetryUnlessFlanT5Base ==
    \A i \in 1..Len(AltRequests) :
        AltRequests[i].model = hf_model_name =>
            Contains(hf_model_name, <<"f","l","a","n","-","t","5","-","b","a","s","e">>)

\* an invoke has ended
HFEnded == hf_pc = "idle" /\ hf_result.kind \in {"return", "raise"}

\* C39: HuggingFaceLLM.invoke always ends with a response object carrying a
\* content string and never raises, for every backend outcome, after at most
\* 2 requests to the primary model and at most one request per entry of
\* free_models.
C39_InvokeReturnsString ==
    /\ Len(SelectSeq(hf_requests, LAMBDA r : r.phase = "primary")) <= 2
    /\ Len(AltRequests) <= Len(free_models)
    /\ \A i, j \in 1..Len(AltRequests) :
          i # j => AltRequests[i].model # AltRequests[j].model
    /\ HFEnded =>
          /\ hf_result.kind = "return"
          /\ hf_result.content.type = "str"

\* the part of C39 that the code keeps: invoke returns and never raises,
\* within the bounds on its requests; its content is a str or the JSON array
\* that the primary model's 200 response carried as its text
C39_InvokeReturns ==
    /\ Len(SelectSeq(hf_requests, LAMBDA r : r.phase = "primary")) <= 2
    /\ Len(AltRequests) <= Len(free_models)
    /\ \A i, j \in 1..Len(AltRequests) :
          i # j => AltRequests[i].model # AltRequests[j].model
    /\ HFEnded =>
          /\ hf_result.kind = "return"
          /\ hf_result.content.type \in {"str", "list"}
          /\ hf_result.content.type = "list" => Len(AltRequests) = 0

====
